---------------------------- MODULE Spec2Model ----------------------------
(***************************************************************************)
(* Model of the AI form generator's extraction and validation pipeline:    *)
(* generateFormInternal (src/app/layout.tsx) and validateFormSchema        *)
(* (src/lib/form-validator.ts).                                            *)
(*                                                                         *)
(* A text is a sequence of characters; a character is a one-character      *)
(* string, except the backtick, which is written BT.  Indices into texts   *)
(* are JavaScript's (0-based); Substring(s, a, b) is s.substring(a, b).    *)
(***************************************************************************)
EXTENDS Integers, Sequences, FiniteSets, TLC

VARIABLES
    raw,          \* data.candidates[0].content.parts[0].text, the completion
    jsonString,   \* let jsonString (layout.tsx:134)
    pc,           \* position in generateFormInternal / the validators
    parseError,   \* the binding of catch (parseError) (layout.tsx:157)
    formSchema,   \* let formSchema (layout.tsx:153); the value given to a validator
    attempts,     \* history: the JSON.parse calls made so far, in order
    log,          \* console.error lines written by the catch of the primary parse
    depth,        \* let depth (layout.tsx:184)
    start,        \* let start (layout.tsx:185)
    i,            \* loop index of the depth scan (layout.tsx:186)
    jsonObjects,  \* const jsonObjects (layout.tsx:183)
    result,       \* the value generateFormInternal returns
    validation,   \* the outcome of validateFormSchema (form-validator.ts:8)
    call,         \* one call of generateForm: its timer, its request, its return
    home,         \* the state of the Home component (page.tsx:20-24)
    reader,       \* the file a FileReader is reading (page.tsx:83-102)
    download,     \* the file the last export offered for download (page.tsx:61-68)
    route         \* one request to POST /api/generate-form (route.ts:8-100)

vars == <<raw, jsonString, pc, parseError, formSchema, attempts, log,
          depth, start, i, jsonObjects, result, validation,
          call, home, reader, download, route>>

\* What lies outside generateFormInternal and the validators.
outside == <<call, home, reader, download, route>>

-----------------------------------------------------------------------------
(* Characters *)

BT == "BACKTICK"

Whitespace == {" ", "\n", "\t", "\r"}

Digits == {"0", "1", "2", "3", "4", "5", "6", "7", "8", "9"}

Min(a, b) == IF a < b THEN a ELSE b

\* String.prototype.toLowerCase on one character, for the letters of a fence tag.
Lower(c) ==
    CASE c = "J" -> "j"
      [] c = "S" -> "s"
      [] c = "O" -> "o"
      [] c = "N" -> "n"
      [] OTHER -> c

-----------------------------------------------------------------------------
(* String operations of the standard library, as the code uses them *)

\* s.substring(a, b), 0-based, b exclusive.
Substring(s, a, b) == SubSeq(s, a + 1, b)

\* An indexOf that counts positions from 1.
IndexOfOneBased(s, c) ==
    IF \E k \in 1..Len(s) : s[k] = c
    THEN CHOOSE k \in 1..Len(s) : s[k] = c /\ \A j \in 1..(k - 1) : s[j] # c
    ELSE -1

\* s.indexOf(c): the 0-based index of the first c, or -1.
IndexOf(s, c) ==
    IF \E k \in 1..Len(s) : s[k] = c
    THEN (CHOOSE k \in 1..Len(s) : s[k] = c /\ \A j \in 1..(k - 1) : s[j] # c) - 1
    ELSE -1

\* s.lastIndexOf(c): the 0-based index of the last c, or -1.
LastIndexOf(s, c) ==
    IF \E k \in 1..Len(s) : s[k] = c
    THEN (CHOOSE k \in 1..Len(s) : s[k] = c /\ \A j \in (k + 1)..Len(s) : s[j] # c) - 1
    ELSE -1

\* s.trim(): s without its leading and trailing whitespace.
Trim(s) ==
    IF \A k \in 1..Len(s) : s[k] \in Whitespace
    THEN <<>>
    ELSE LET a == CHOOSE k \in 1..Len(s) :
                      s[k] \notin Whitespace /\ \A j \in 1..(k - 1) : s[j] \in Whitespace
             b == CHOOSE k \in 1..Len(s) :
                      s[k] \notin Whitespace /\ \A j \in (k + 1)..Len(s) : s[j] \in Whitespace
         IN  SubSeq(s, a, b)

\* s.startsWith(p), case-sensitive.
StartsWith(s, p) ==
    /\ Len(p) <= Len(s)
    /\ \A k \in 1..Len(p) : s[k] = p[k]

\* The 1-based position of the first non-whitespace character of s at or after
\* position k (Len(s) + 1 when there is none): what \s* consumes, greedily.
SkipWS(s, k) ==
    CHOOSE j \in k..(Len(s) + 1) :
        /\ \A m \in k..(j - 1) : s[m] \in Whitespace
        /\ (j = Len(s) + 1 \/ s[j] \notin Whitespace)

\* s.replace(/^<marker>\s*/i, ''): drops a leading marker, matched without
\* regard to case, and the whitespace after it; s unchanged when no match.
StripLeading(s, marker) ==
    IF /\ Len(marker) <= Len(s)
       /\ \A k \in 1..Len(marker) : Lower(s[k]) = Lower(marker[k])
    THEN SubSeq(s, SkipWS(s, Len(marker) + 1), Len(s))
    ELSE s

Fence == <<BT, BT, BT>>

FenceJson == <<BT, BT, BT, "j", "s", "o", "n">>

\* s.replace(/\s*```$/i, ''): drops a closing fence at the very end of s and the
\* whitespace before it; s unchanged when s does not end with the fence.
StripTrailingFence(s) ==
    IF Len(s) >= 3 /\ SubSeq(s, Len(s) - 2, Len(s)) = Fence
    THEN LET n == Len(s) - 3
             keep == IF \A k \in 1..n : s[k] \in Whitespace
                     THEN 0
                     ELSE CHOOSE k \in 1..n :
                              s[k] \notin Whitespace
                              /\ \A j \in (k + 1)..n : s[j] \in Whitespace
         IN  SubSeq(s, 1, keep)
    ELSE s

-----------------------------------------------------------------------------
(* JSON values, as JSON.parse builds them.  An object is the sequence of its *)
(* own properties in insertion order, each <<key, value>>.                  *)

Undefined == [type |-> "undefined"]

Null == [type |-> "null"]

Bool(b) == [type |-> "boolean", val |-> b]

Num(n) == [type |-> "number", val |-> n]

Str(s) == [type |-> "string", val |-> s]

Arr(elems) == [type |-> "array", val |-> elems]

Obj(props) == [type |-> "object", val |-> props]

\* obj[key] = value on the property list of an object: a key already present
\* keeps its place and takes the new value (a duplicate key: the last one wins).
SetProp(props, key, value) ==
    IF \E k \in 1..Len(props) : props[k][1] = key
    THEN [k \in 1..Len(props) |-> IF props[k][1] = key THEN <<key, value>> ELSE props[k]]
    ELSE Append(props, <<key, value>>)

\* v.key for a value v that is neither null nor undefined: the property's value,
\* undefined when v has no such own property (the keys read by the code are
\* formTitle, fields, id, label and type, which no array, string, number or
\* boolean has).
GetProp(v, key) ==
    IF v.type = "object" /\ \E k \in 1..Len(v.val) : v.val[k][1] = key
    THEN v.val[CHOOSE k \in 1..Len(v.val) : v.val[k][1] = key][2]
    ELSE Undefined

\* Reading a property of null or undefined throws a TypeError.
Nullish(v) == v.type \in {"null", "undefined"}

\* JavaScript truthiness: !v is the negation.
Truthy(v) ==
    CASE v.type \in {"undefined", "null"} -> FALSE
      [] v.type = "boolean" -> v.val
      [] v.type = "number" -> v.val # 0
      [] v.type = "string" -> Len(v.val) > 0
      [] OTHER -> TRUE

\* Array.isArray(v)
IsArray(v) == v.type = "array"

-----------------------------------------------------------------------------
(* JSON.parse.  Positions inside the parser are 1-based.  A parse result is  *)
(* [ok, val, pos]: on success the value and the position after it, on       *)
(* failure the position of the offending character (Len(s) + 1 at the end   *)
(* of the input).  Texts are over an alphabet without backslash, sign,      *)
(* decimal point and upper-case E, so a string has no escapes and a number  *)
(* is an integer with an optional exponent e<digits>.                       *)

Fail(pos) == [ok |-> FALSE, val |-> Undefined, pos |-> pos]

Ok(val, pos) == [ok |-> TRUE, val |-> val, pos |-> pos]

DigitValue(c) ==
    CASE c = "0" -> 0 [] c = "1" -> 1 [] c = "2" -> 2 [] c = "3" -> 3 [] c = "4" -> 4
      [] c = "5" -> 5 [] c = "6" -> 6 [] c = "7" -> 7 [] c = "8" -> 8 [] c = "9" -> 9

RECURSIVE DecimalValue(_)
DecimalValue(ds) ==
    IF ds = <<>> THEN 0
    ELSE 10 * DecimalValue(SubSeq(ds, 1, Len(ds) - 1)) + DigitValue(ds[Len(ds)])

RECURSIVE Pow10(_)
Pow10(n) == IF n = 0 THEN 1 ELSE 10 * Pow10(n - 1)

\* The position after the run of digits of s that starts at position k.
DigitsEnd(s, k) ==
    CHOOSE j \in k..(Len(s) + 1) :
        /\ \A m \in k..(j - 1) : s[m] \in Digits
        /\ (j = Len(s) + 1 \/ s[j] \notin Digits)

\* The exponent of a number whose integer part has the value int: the digits
\* from expStart to before expEnd, at least one.
ParseExponent(s, int, expStart, expEnd) ==
    IF expEnd = expStart
    THEN Fail(expStart)
    ELSE Ok(Num(int * Pow10(DecimalValue(SubSeq(s, expStart, expEnd - 1)))), expEnd)

\* A number whose integer part is s[k..intEnd - 1].
ParseNumberFrom(s, k, intEnd) ==
    IF intEnd <= Len(s) /\ s[intEnd] = "e"
    THEN ParseExponent(s, DecimalValue(SubSeq(s, k, intEnd - 1)), intEnd + 1,
                       DigitsEnd(s, intEnd + 1))
    ELSE Ok(Num(DecimalValue(SubSeq(s, k, intEnd - 1))), intEnd)

\* A number at position k, where s[k] is a digit: 0 | [1-9][0-9]*, then an
\* optional exponent.
ParseNumber(s, k) ==
    ParseNumberFrom(s, k, IF s[k] = "0" THEN k + 1 ELSE DigitsEnd(s, k))

\* The characters that end the scan of a string's content: the closing quote,
\* and the raw control characters a string may not hold.
StringStops == {"\"", "\n", "\t", "\r"}

\* The position of the first such character after position k, Len(s) + 1 when
\* there is none.
StringEnd(s, k) ==
    CHOOSE j \in (k + 1)..(Len(s) + 1) :
        /\ \A m \in (k + 1)..(j - 1) : s[m] \notin StringStops
        /\ (j = Len(s) + 1 \/ s[j] \in StringStops)

ParseStringTo(s, k, stop) ==
    IF stop <= Len(s) /\ s[stop] = "\""
    THEN Ok(Str(SubSeq(s, k + 1, stop - 1)), stop + 1)
    ELSE Fail(stop)

\* A string at position k, where s[k] is the opening quote: up to the next
\* quote; a raw control character inside it is an error.
ParseString(s, k) == ParseStringTo(s, k, StringEnd(s, k))

\* The offsets at which s from position k differs from word.
Mismatches(s, k, word) ==
    {m \in 1..Len(word) : k + m - 1 > Len(s) \/ s[k + m - 1] # word[m]}

\* One of the literals true, false, null at position k.
ParseLiteral(s, k, word, value) ==
    IF Mismatches(s, k, word) = {}
    THEN Ok(value, k + Len(word))
    ELSE Fail(k + (CHOOSE m \in Mismatches(s, k, word) :
                       \A n \in Mismatches(s, k, word) : m <= n) - 1)

RECURSIVE ParseValue(_, _)
RECURSIVE ParseElements(_, _, _)
RECURSIVE ParseMembers(_, _, _)

\* After an element of an array: j is the position of the next character that
\* is no whitespace, elems the elements read so far.
AfterElement(s, j, elems) ==
    IF j > Len(s) THEN Fail(j)
    ELSE IF s[j] = "," THEN ParseElements(s, j + 1, elems)
    ELSE IF s[j] = "]" THEN Ok(Arr(elems), j + 1)
    ELSE Fail(j)

ElementParsed(s, v, acc) ==
    IF ~v.ok THEN v ELSE AfterElement(s, SkipWS(s, v.pos), Append(acc, v.val))

\* The elements of an array from position k (after '[' or ','), acc the
\* elements read so far.
ParseElements(s, k, acc) == ElementParsed(s, ParseValue(s, k), acc)

\* After a member of an object: e is the position of the next character that
\* is no whitespace, props the properties read so far.
AfterMember(s, e, props) ==
    IF e > Len(s) THEN Fail(e)
    ELSE IF s[e] = "," THEN ParseMembers(s, e + 1, props)
    ELSE IF s[e] = "}" THEN Ok(Obj(props), e + 1)
    ELSE Fail(e)

MemberValueParsed(s, key, v, acc) ==
    IF ~v.ok THEN v ELSE AfterMember(s, SkipWS(s, v.pos), SetProp(acc, key, v.val))

\* After a member's key: c is the position of the next character that is no
\* whitespace, which must be the colon.
MemberColon(s, key, c, acc) ==
    IF c > Len(s) \/ s[c] # ":" THEN Fail(c)
    ELSE MemberValueParsed(s, key, ParseValue(s, c + 1), acc)

MemberKeyParsed(s, key, acc) ==
    IF ~key.ok THEN key ELSE MemberColon(s, key.val.val, SkipWS(s, key.pos), acc)

\* A member must start with the quote of its key, at position j.
MemberAt(s, j, acc) ==
    IF j > Len(s) \/ s[j] # "\"" THEN Fail(j)
    ELSE MemberKeyParsed(s, ParseString(s, j), acc)

\* The members of an object from position k (after '{' or ','), acc the
\* properties read so far.
ParseMembers(s, k, acc) == MemberAt(s, SkipWS(s, k), acc)

\* An object whose '{' is at position j; m is the position of the next
\* character that is no whitespace.
ParseObject(s, j, m) ==
    IF m <= Len(s) /\ s[m] = "}" THEN Ok(Obj(<<>>), m + 1)
    ELSE ParseMembers(s, j + 1, <<>>)

\* An array whose '[' is at position j.
ParseArray(s, j, m) ==
    IF m <= Len(s) /\ s[m] = "]" THEN Ok(Arr(<<>>), m + 1)
    ELSE ParseElements(s, j + 1, <<>>)

\* A JSON value that starts at position j, the first character that is no
\* whitespace.
ParseValueAt(s, j) ==
    IF j > Len(s) THEN Fail(j)
    ELSE IF s[j] = "{" THEN ParseObject(s, j, SkipWS(s, j + 1))
    ELSE IF s[j] = "[" THEN ParseArray(s, j, SkipWS(s, j + 1))
    ELSE IF s[j] = "\"" THEN ParseString(s, j)
    ELSE IF s[j] \in Digits THEN ParseNumber(s, j)
    ELSE IF s[j] = "t" THEN ParseLiteral(s, j, <<"t", "r", "u", "e">>, Bool(TRUE))
    ELSE IF s[j] = "f" THEN ParseLiteral(s, j, <<"f", "a", "l", "s", "e">>, Bool(FALSE))
    ELSE IF s[j] = "n" THEN ParseLiteral(s, j, <<"n", "u", "l", "l">>, Null)
    ELSE Fail(j)

\* A JSON value at or after position k, leading whitespace skipped.
ParseValue(s, k) == ParseValueAt(s, SkipWS(s, k))

\* After the value of the text: only whitespace may follow, up to the end.
WholeText(s, v) ==
    IF ~v.ok THEN v
    ELSE IF SkipWS(s, v.pos) > Len(s) THEN v
    ELSE Fail(SkipWS(s, v.pos))

\* JSON.parse(s): one value, then only whitespace up to the end of the text.
JSONParse(s) == WholeText(s, ParseValue(s, 1))

\* The SyntaxError a failed JSON.parse(s) throws: its message names the 0-based
\* position of the offending character and that character.
NoError == [name |-> "none", pos |-> -1, tok |-> ""]

SyntaxError(s, r) ==
    [name |-> "SyntaxError", pos |-> r.pos - 1,
     tok |-> IF r.pos > Len(s) THEN "EOF" ELSE s[r.pos]]

-----------------------------------------------------------------------------
(* The values generateFormInternal returns, and its messages.  A message is  *)
(* its fixed text and, where the code interpolates an error's message, that *)
(* error.                                                                   *)

Message(text, cause) == [text |-> text, cause |-> cause]

NoMessage == Message("", NoError)

Pending == [status |-> "pending", schema |-> Undefined, error |-> NoMessage]

Success(schema) == [status |-> "success", schema |-> schema, error |-> NoMessage]

Failure(message) == [status |-> "failure", schema |-> Undefined, error |-> message]

\* A failure whose message is empty.
ParseFailedMessageBlank(err) == NoMessage

\* A failure message that reports 'Unknown error' whatever the error was.
ParseFailedMessageUnknown(err) ==
    Message("Failed to parse AI response. Tried multiple parsing strategies. Error: <cause>. Please try again.",
            NoError)

\* layout.tsx:208; parseError is the SyntaxError of the primary parse.
ParseFailedMessage(err) ==
    Message("Failed to parse AI response. Tried multiple parsing strategies. Error: <cause>. Please try again.",
            err)

MissingMessage == Message("Invalid form schema generated: missing formTitle or fields", NoError)

FieldMessage == Message("Invalid field structure in generated schema", NoError)

\* error.message of the TypeError thrown by reading property key of null,
\* returned by the catch at layout.tsx:235.
TypeErrorMessage(key) ==
    Message("Cannot read properties of null (reading '<cause>')",
            [name |-> "TypeError", pos |-> -1, tok |-> key])

LogExcerptLen == 1000

\* An excerpt that is the whole text.
LogExcerptUnbounded(s) == s

\* jsonString.substring(0, 1000) (layout.tsx:159)
LogExcerpt(s) == Substring(s, 0, Min(LogExcerptLen, Len(s)))

NoLog == [error |-> NoError, excerpt |-> <<>>, length |-> -1]

-----------------------------------------------------------------------------
(* The cleaning steps and the candidates of the fallbacks *)

\* layout.tsx:140-144
StripFences(s) ==
    IF StartsWith(s, FenceJson)
    THEN StripTrailingFence(StripLeading(s, FenceJson))
    ELSE IF StartsWith(s, Fence)
         THEN StripTrailingFence(StripLeading(s, Fence))
         ELSE s

\* layout.tsx:147-151 and 173-176: the substring from the first { to the last },
\* when both exist in that order.
HasBoundaries(s) ==
    /\ IndexOf(s, "{") # -1
    /\ LastIndexOf(s, "}") # -1
    /\ LastIndexOf(s, "}") > IndexOf(s, "{")

\* The substring that stops before the last }.
BoundariesExclusive(s) == Substring(s, IndexOf(s, "{"), LastIndexOf(s, "}"))

Boundaries(s) == Substring(s, IndexOf(s, "{"), LastIndexOf(s, "}") + 1)

ExtractBoundaries(s) == IF HasBoundaries(s) THEN Boundaries(s) ELSE s

\* A match that stops at the first } after the leftmost { (a lazy quantifier).
RegexMatchLazy(s) ==
    LET opens == {k \in 1..Len(s) : s[k] = "{" /\ \E j \in (k + 1)..Len(s) : s[j] = "}"}
    IN  IF opens = {}
        THEN [found |-> FALSE, text |-> <<>>]
        ELSE LET a == CHOOSE k \in opens : \A m \in opens : k <= m
                 b == CHOOSE j \in (a + 1)..Len(s) :
                          s[j] = "}" /\ \A m \in (a + 1)..(j - 1) : s[m] # "}"
             IN  [found |-> TRUE, text |-> SubSeq(s, a, b)]

\* jsonString.match(/\{[\s\S]*\}/): the leftmost { up to, greedily, the last }
\* after it; null (found = FALSE) when there is no such pair.
RegexMatch(s) ==
    LET opens == {k \in 1..Len(s) : s[k] = "{" /\ \E j \in (k + 1)..Len(s) : s[j] = "}"}
    IN  IF opens = {}
        THEN [found |-> FALSE, text |-> <<>>]
        ELSE LET a == CHOOSE k \in opens : \A m \in opens : k <= m
                 b == CHOOSE j \in (a + 1)..Len(s) :
                          s[j] = "}" /\ \A m \in (j + 1)..Len(s) : s[m] # "}"
             IN  [found |-> TRUE, text |-> SubSeq(s, a, b)]

\* A reducer that keeps the earlier of two candidates of equal length.
LongerFirst(a, b) == IF Len(a) >= Len(b) THEN a ELSE b

\* (a, b) => (a.length > b.length ? a : b) (layout.tsx:200)
Longer(a, b) == IF Len(a) > Len(b) THEN a ELSE b

\* jsonObjects.reduce(Longer), for a non-empty jsonObjects: left to right, the
\* first element the initial accumulator.
RECURSIVE Largest(_)
Largest(objs) ==
    IF Len(objs) = 1 THEN objs[1]
    ELSE Longer(Largest(SubSeq(objs, 1, Len(objs) - 1)), objs[Len(objs)])

\* One JSON.parse call, as the history records it.
AttemptOf(stage, cand, r) ==
    [stage |-> stage, cand |-> cand, ok |-> r.ok, val |-> r.val,
     err |-> IF r.ok THEN NoError ELSE SyntaxError(cand, r)]

Attempt(stage, cand) == AttemptOf(stage, cand, JSONParse(cand))

-----------------------------------------------------------------------------
(* The structural checks *)

KeyFormTitle == <<"f", "o", "r", "m", "T", "i", "t", "l", "e">>

KeyFields == <<"f", "i", "e", "l", "d", "s">>

KeyId == <<"i", "d">>

KeyLabel == <<"l", "a", "b", "e", "l">>

KeyType == <<"t", "y", "p", "e">>

\* The kinds of field of the FormField type (layout.tsx:93).
RecognizedTypes ==
    { Str(<<"t", "e", "x", "t">>), Str(<<"t", "e", "x", "t", "a", "r", "e", "a">>),
      Str(<<"n", "u", "m", "b", "e", "r">>), Str(<<"e", "m", "a", "i", "l">>),
      Str(<<"s", "e", "l", "e", "c", "t">>), Str(<<"c", "h", "e", "c", "k", "b", "o", "x">>) }

\* A field check that also wants a recognized type.
FieldIncompleteStrict(field) ==
    \/ ~Truthy(GetProp(field, KeyId))
    \/ ~Truthy(GetProp(field, KeyLabel))
    \/ GetProp(field, KeyType) \notin RecognizedTypes

\* !field.id || !field.label || !field.type, for a field that is not null
\* (layout.tsx:225, form-validator.ts:20)
FieldIncomplete(field) ==
    \/ ~Truthy(GetProp(field, KeyId))
    \/ ~Truthy(GetProp(field, KeyLabel))
    \/ ~Truthy(GetProp(field, KeyType))

\* The first element of the array elems the field loop stops at: 0 when the loop
\* runs to its end.
FirstBadField(elems) ==
    LET bad == {k \in 1..Len(elems) : Nullish(elems[k]) \/ FieldIncomplete(elems[k])}
    IN  IF bad = {} THEN 0 ELSE CHOOSE k \in bad : \A m \in bad : k <= m

\* layout.tsx:216, for a formSchema that is not null
TopLevelInvalid(v) ==
    \/ ~Truthy(GetProp(v, KeyFormTitle))
    \/ ~Truthy(GetProp(v, KeyFields))
    \/ ~IsArray(GetProp(v, KeyFields))

\* Checks that look at the field entries before the top level.
ValidateGeneratedFieldsFirst(v) ==
    IF Nullish(v) THEN Failure(TypeErrorMessage("formTitle"))
    ELSE IF IsArray(GetProp(v, KeyFields))
            /\ \E k \in 1..Len(GetProp(v, KeyFields).val) :
                   /\ ~Nullish(GetProp(v, KeyFields).val[k])
                   /\ FieldIncomplete(GetProp(v, KeyFields).val[k])
    THEN Failure(FieldMessage)
    ELSE IF TopLevelInvalid(v) THEN Failure(MissingMessage)
    ELSE IF FirstBadField(GetProp(v, KeyFields).val) = 0 THEN Success(v)
    ELSE Failure(TypeErrorMessage("id"))

\* layout.tsx:215-241: the checks of generateFormInternal on the decoded value.
\* Reading a property of null throws a TypeError, which the catch at line 235
\* turns into a failure carrying the TypeError's message.
ValidateGenerated(v) ==
    IF Nullish(v) THEN Failure(TypeErrorMessage("formTitle"))
    ELSE IF TopLevelInvalid(v) THEN Failure(MissingMessage)
    ELSE LET fields == GetProp(v, KeyFields).val
             k == FirstBadField(fields)
         IN  IF k = 0 THEN Success(v)
             ELSE IF Nullish(fields[k]) THEN Failure(TypeErrorMessage("id"))
             ELSE Failure(FieldMessage)

\* The outcomes of validateFormSchema: a returned {isValid, error}, or a thrown
\* TypeError.
NotValidated == [status |-> "pending", isValid |-> FALSE, error |-> ""]

Returned(isValid, error) == [status |-> "returned", isValid |-> isValid, error |-> error]

Threw == [status |-> "threw", isValid |-> FALSE, error |-> "TypeError"]

\* form-validator.ts:8-26.  typeof schema is 'object' for objects, arrays and
\* null; !schema is true for null.
ValidateFormSchema(schema) ==
    IF ~Truthy(schema) \/ schema.type \notin {"object", "array", "null"}
    THEN Returned(FALSE, "Invalid JSON file: not a valid object")
    ELSE IF ~Truthy(GetProp(schema, KeyFields)) \/ ~IsArray(GetProp(schema, KeyFields))
    THEN Returned(FALSE, "Invalid JSON file: missing fields array")
    ELSE LET fields == GetProp(schema, KeyFields).val
             k == FirstBadField(fields)
         IN  IF k = 0 THEN Returned(TRUE, "")
             ELSE IF Nullish(fields[k]) THEN Threw
             ELSE Returned(FALSE, "Invalid JSON file: missing required field properties")

-----------------------------------------------------------------------------
(* The completion texts the model runs generateFormInternal on *)

MaxObjects == 2

ObjA == <<"{", "\"", "a", "\"", ":", "1", "}">>

ObjB == <<"{", "\"", "b", "\"", ":", "2", "}">>

ObjLong == <<"{", "\"", "a", "\"", ":", "1", ",", "\"", "b", "\"", ":", "2", "}">>

ObjBrace == <<"{", "\"", "a", "\"", ":", "\"", "{", "\"", "}">>

ObjBad == <<"{", "a", "}">>

ObjNested == <<"{", "\"", "a", "\"", ":", "{", "}", "}">>

\* The brace-delimited fragments of a completion: valid objects, one of them
\* with a brace inside a string and one with a nested object, and one that is
\* no JSON.
Objects == {ObjA, ObjB, ObjLong, ObjBrace, ObjBad, ObjNested}

\* What stands between, before and after the fragments: nothing, prose, and
\* prose with a stray brace.
Gaps == {<<>>, <<" ", "x", " ">>, <<"}">>}

\* The texts with exactly n fragments.
RECURSIVE Bodies(_)
Bodies(n) ==
    IF n = 0 THEN Gaps
    ELSE {b \o o \o g : b \in Bodies(n - 1), o \in Objects, g \in Gaps}

PlainTexts == UNION {Bodies(n) : n \in 0..MaxObjects}

FenceOpens == {<<BT, BT, BT, "j", "s", "o", "n", "\n">>, <<BT, BT, BT, "\n">>, <<BT, BT, BT, "J", "S", "O", "N", " ">>}

FenceCloses == {<<"\n", BT, BT, BT>>, <<BT, BT, BT, "\n">>, <<>>}

\* One fragment at most, inside a Markdown code fence (the closing fence may
\* be missing).
FencedTexts == {o \o b \o c : o \in FenceOpens, b \in Bodies(0) \cup Bodies(1), c \in FenceCloses}

SchemaText == <<"{", "\"", "f", "o", "r", "m", "T", "i", "t", "l", "e", "\"", ":", "\"", "T", "\"", ",", "\"", "f", "o", "r", "m", "D", "e", "s", "c", "r", "i", "p", "t", "i", "o", "n", "\"", ":", "\"", "D", "\"", ",", "\"", "f", "i", "e", "l", "d", "s", "\"", ":", "[", "{", "\"", "i", "d", "\"", ":", "\"", "a", "\"", ",", "\"", "l", "a", "b", "e", "l", "\"", ":", "\"", "A", "\"", ",", "\"", "t", "y", "p", "e", "\"", ":", "\"", "t", "e", "x", "t", "\"", ",", "\"", "r", "e", "q", "u", "i", "r", "e", "d", "\"", ":", "t", "r", "u", "e", "}", "]", "}">>

SchemaItemsText == <<"{", "\"", "f", "o", "r", "m", "T", "i", "t", "l", "e", "\"", ":", "\"", "T", "\"", ",", "\"", "f", "o", "r", "m", "D", "e", "s", "c", "r", "i", "p", "t", "i", "o", "n", "\"", ":", "\"", "D", "\"", ",", "\"", "i", "t", "e", "m", "s", "\"", ":", "[", "{", "\"", "i", "d", "\"", ":", "\"", "a", "\"", ",", "\"", "l", "a", "b", "e", "l", "\"", ":", "\"", "A", "\"", ",", "\"", "t", "y", "p", "e", "\"", ":", "\"", "t", "e", "x", "t", "\"", ",", "\"", "r", "e", "q", "u", "i", "r", "e", "d", "\"", ":", "t", "r", "u", "e", "}", "]", "}">>

SchemaNoIdText == <<"{", "\"", "f", "o", "r", "m", "T", "i", "t", "l", "e", "\"", ":", "\"", "T", "\"", ",", "\"", "f", "o", "r", "m", "D", "e", "s", "c", "r", "i", "p", "t", "i", "o", "n", "\"", ":", "\"", "D", "\"", ",", "\"", "f", "i", "e", "l", "d", "s", "\"", ":", "[", "{", "\"", "l", "a", "b", "e", "l", "\"", ":", "\"", "A", "\"", ",", "\"", "t", "y", "p", "e", "\"", ":", "\"", "t", "e", "x", "t", "\"", ",", "\"", "r", "e", "q", "u", "i", "r", "e", "d", "\"", ":", "t", "r", "u", "e", "}", "]", "}">>

SchemaNullFieldText == <<"{", "\"", "f", "o", "r", "m", "T", "i", "t", "l", "e", "\"", ":", "\"", "T", "\"", ",", "\"", "f", "i", "e", "l", "d", "s", "\"", ":", "[", "n", "u", "l", "l", "]", "}">>

SchemaNoTitleText == <<"{", "\"", "f", "i", "e", "l", "d", "s", "\"", ":", "[", "]", "}">>

\* The example of the design notes: a short object, then the schema.
TwoObjectsText == <<"n", "o", "i", "s", "e", " ", "{", "\"", "a", "\"", ":", "1", "}", " ", "m", "o", "r", "e", " ", "{", "\"", "f", "o", "r", "m", "T", "i", "t", "l", "e", "\"", ":", "\"", "X", "\"", ",", "\"", "f", "i", "e", "l", "d", "s", "\"", ":", "[", "]", "}", " ", "e", "n", "d">>

\* JSON texts that are no object, some with braces inside.
ValueTexts ==
    { <<"[", "{", "\"", "a", "\"", ":", "1", "}", "]">>,
      <<"\"", "{", "x", "}", "\"">>,
      <<"\"", "}", "{", "\"">>,
      <<"1", "2">>,
      <<"n", "u", "l", "l">>,
      <<"t", "r", "u", "e">>,
      <<"[", "1", ",", " ", "2", "]">>,
      <<" ", "\n", "{", "\"", "a", "\"", ":", "1", "}", "\n", " ">>,
      <<"[", "{", "\"", "a", "\"", ":", "1", "}", ",", " ", "{", "\"", "b", "\"", ":", "2", "}", "]">>,
      <<"{", "\"", "a", "\"", ":", "{", "}", "}">>,
      <<"1", "e", "2">> }

\* A text longer than the excerpt the log keeps.
LongText == [k \in 1..(LogExcerptLen + 1) |-> "x"]

SpecialTexts ==
    {SchemaText, SchemaItemsText, SchemaNoIdText, SchemaNullFieldText, SchemaNoTitleText,
     TwoObjectsText, LongText, <<>>, <<"n", "o", "i", "s", "e">>, <<"{">>, <<"{", "\"", "a", "\"">>,
     <<"{", "}", " ", "x", " ", "{", "\"", "a", "\"", "}">>, <<"{", "\"", "a", "\"", ":", "1", "}", " ", "{", " ", "{", "\"", "a", "\"", ":", "1", ",", "\"", "b", "\"", ":", "2", "}">>,
     ObjA \o <<" ">> \o ObjNested \o <<" ">> \o ObjB,
     ObjBad \o <<"}", " ">> \o SchemaText}

Texts == PlainTexts \cup FencedTexts \cup ValueTexts \cup SpecialTexts

-----------------------------------------------------------------------------
(* generateFormInternal from the completion text on (layout.tsx:134-241) *)

\* No response of the upstream service yet.
NoResponse == [ok |-> FALSE, status |-> 0, statusText |-> <<>>]

\* No call of generateForm is under way.  state: none, racing (withTimeout
\* awaits the race), returned; timer: off, armed, fired; requests: the fetch
\* calls issued; events: history, the order in which the timer fired
\* ("timer") and generateFormInternal settled ("settled"); apiKey: whether
\* process.env.GEMINI_API_KEY is set; prompt: the argument of the call.
NoCall ==
    [state |-> "none", timer |-> "off", requests |-> 0, response |-> NoResponse,
     events |-> <<>>, returned |-> Pending, apiKey |-> FALSE, prompt |-> <<>>]

\* No file.
NoFile == [present |-> FALSE, text |-> <<>>, schema |-> Undefined]

\* The route has sent no response.
NoRouteResponse == [status |-> 0, error |-> "", schema |-> Undefined]

\* No request to the route.  state: none, generating (model.generateContent is
\* awaited), responded; body: what request.json() made of the body of the
\* request; apiKey: whether process.env.GEMINI_API_KEY is set; completion: the
\* text of the completion.
NoRoute == [state |-> "none", body |-> Fail(0), apiKey |-> FALSE,
            completion |-> <<>>, response |-> NoRouteResponse]

\* Home as first rendered (page.tsx:20-24); timers: the setTimeout callbacks of
\* showToast not yet run; generations: the calls of generateForm that have not
\* returned; copies: the clipboard writes that have not settled.
HomeInitial ==
    [prompt |-> <<>>, formSchema |-> Null, error |-> NoMessage, isPending |-> FALSE,
     toastMessage |-> "null", timers |-> 0, generations |-> 0, copies |-> 0]

Init ==
    /\ call = NoCall
    /\ home = HomeInitial
    /\ reader = NoFile
    /\ download = NoFile
    /\ route = NoRoute
    /\ raw \in Texts
    /\ jsonString = raw
    /\ pc = "trim"
    /\ parseError = NoError
    /\ formSchema = Undefined
    /\ attempts = <<>>
    /\ log = NoLog
    /\ depth = 0
    /\ start = -1
    /\ i = 0
    /\ jsonObjects = <<>>
    /\ result = Pending
    /\ validation = NotValidated

\* layout.tsx:137
TrimText ==
    /\ pc = "trim"
    /\ jsonString' = Trim(jsonString)
    /\ pc' = "fence"
    /\ UNCHANGED <<raw, parseError, formSchema, attempts, log, depth, start, i,
                   jsonObjects, result, validation>>
    /\ UNCHANGED outside

\* layout.tsx:140-144
StripFence ==
    /\ pc = "fence"
    /\ jsonString' = StripFences(jsonString)
    /\ pc' = "boundary"
    /\ UNCHANGED <<raw, parseError, formSchema, attempts, log, depth, start, i,
                   jsonObjects, result, validation>>
    /\ UNCHANGED outside

\* layout.tsx:147-151
TrimBoundary ==
    /\ pc = "boundary"
    /\ jsonString' = ExtractBoundaries(jsonString)
    /\ pc' = "primary"
    /\ UNCHANGED <<raw, parseError, formSchema, attempts, log, depth, start, i,
                   jsonObjects, result, validation>>
    /\ UNCHANGED outside

\* A primary parse whose success does not leave the cascade: the fallbacks run
\* after it all the same.
PrimaryParseFallsThrough ==
    /\ pc = "primary"
    /\ \E a \in {Attempt("primary", jsonString)} :
           /\ attempts' = Append(attempts, a)
           /\ formSchema' = IF a.ok THEN a.val ELSE formSchema
           /\ parseError' = a.err
           /\ log' = [error |-> a.err, excerpt |-> LogExcerpt(jsonString),
                      length |-> Len(jsonString)]
           /\ pc' = "fallbackA"
    /\ UNCHANGED <<raw, jsonString, depth, start, i, jsonObjects, result, validation>>
    /\ UNCHANGED outside

\* layout.tsx:153-160: the primary parse, and on a SyntaxError the catch that
\* binds parseError and logs.
PrimaryParse ==
    /\ pc = "primary"
    /\ \E a \in {Attempt("primary", jsonString)} :
           /\ attempts' = Append(attempts, a)
           /\ IF a.ok
              THEN /\ formSchema' = a.val
                   /\ pc' = "validate"
                   /\ UNCHANGED <<parseError, log>>
              ELSE /\ parseError' = a.err
                   /\ log' = [error |-> a.err, excerpt |-> LogExcerpt(jsonString),
                              length |-> Len(jsonString)]
                   /\ pc' = "fallbackA"
                   /\ UNCHANGED formSchema
    /\ UNCHANGED <<raw, jsonString, depth, start, i, jsonObjects, result, validation>>
    /\ UNCHANGED outside

\* layout.tsx:162-170
FallbackA ==
    /\ pc = "fallbackA"
    /\ IF RegexMatch(jsonString).found
       THEN \E a \in {Attempt("regex", RegexMatch(jsonString).text)} :
                /\ attempts' = Append(attempts, a)
                /\ formSchema' = IF a.ok THEN a.val ELSE formSchema
                /\ pc' = IF a.ok THEN "validate" ELSE "fallbackB"
       ELSE /\ pc' = "fallbackB"
            /\ UNCHANGED <<attempts, formSchema>>
    /\ UNCHANGED <<raw, jsonString, parseError, log, depth, start, i, jsonObjects,
                   result, validation>>
    /\ UNCHANGED outside

\* layout.tsx:171-180
FallbackB ==
    /\ pc = "fallbackB"
    /\ IF HasBoundaries(jsonString)
       THEN \E a \in {Attempt("boundaries", Boundaries(jsonString))} :
                /\ attempts' = Append(attempts, a)
                /\ formSchema' = IF a.ok THEN a.val ELSE formSchema
                /\ pc' = IF a.ok THEN "validate" ELSE "fallbackC"
       ELSE /\ pc' = "fallbackC"
            /\ UNCHANGED <<attempts, formSchema>>
    /\ UNCHANGED <<raw, jsonString, parseError, log, depth, start, i, jsonObjects,
                   result, validation>>
    /\ UNCHANGED outside

\* layout.tsx:183-186: the declarations of the depth scan
ScanStart ==
    /\ pc = "fallbackC"
    /\ jsonObjects' = <<>>
    /\ depth' = 0
    /\ start' = -1
    /\ i' = 0
    /\ pc' = "scan"
    /\ UNCHANGED <<raw, jsonString, parseError, formSchema, attempts, log, result,
                   validation>>
    /\ UNCHANGED outside

\* layout.tsx:186-197: one iteration of the depth scan
ScanStep ==
    /\ pc = "scan"
    /\ i < Len(jsonString)
    /\ LET c == jsonString[i + 1]
       IN  IF c = "{"
           THEN /\ start' = IF depth = 0 THEN i ELSE start
                /\ depth' = depth + 1
                /\ UNCHANGED jsonObjects
           ELSE IF c = "}"
           THEN /\ depth' = depth - 1
                /\ IF depth - 1 = 0 /\ start # -1
                   THEN /\ jsonObjects' = Append(jsonObjects, Substring(jsonString, start, i + 1))
                        /\ start' = -1
                   ELSE UNCHANGED <<jsonObjects, start>>
           ELSE UNCHANGED <<depth, start, jsonObjects>>
    /\ i' = i + 1
    /\ UNCHANGED <<raw, jsonString, pc, parseError, formSchema, attempts, log, result,
                   validation>>
    /\ UNCHANGED outside

\* A Fallback C that, when nothing decodes, asks the upstream service again (up
\* to three requests in all) instead of returning the failure.
ParseLargestRetries ==
    /\ pc = "scan"
    /\ i >= Len(jsonString)
    /\ IF Len(jsonObjects) > 0 /\ JSONParse(Largest(jsonObjects)).ok
       THEN /\ attempts' = Append(attempts, Attempt("scan", Largest(jsonObjects)))
            /\ formSchema' = JSONParse(Largest(jsonObjects)).val
            /\ pc' = "validate"
            /\ UNCHANGED <<result, call>>
       ELSE IF call.requests >= 1 /\ call.requests <= 2
       THEN /\ pc' = "fetching"
            /\ call' = [call EXCEPT !.requests = call.requests + 1]
            /\ UNCHANGED <<attempts, formSchema, result>>
       ELSE /\ pc' = "done"
            /\ result' = Failure(ParseFailedMessage(parseError))
            /\ UNCHANGED <<attempts, formSchema, call>>
    /\ UNCHANGED <<raw, jsonString, parseError, log, depth, start, i, jsonObjects,
                   validation, home, reader, download, route>>

\* layout.tsx:199-210: after the loop, parse the largest candidate; when there
\* is none, or it does not parse, return the failure.
ParseLargest ==
    /\ pc = "scan"
    /\ i >= Len(jsonString)
    /\ IF Len(jsonObjects) > 0
       THEN \E a \in {Attempt("scan", Largest(jsonObjects))} :
                /\ attempts' = Append(attempts, a)
                /\ formSchema' = IF a.ok THEN a.val ELSE formSchema
                /\ pc' = IF a.ok THEN "validate" ELSE "done"
                /\ result' = IF a.ok THEN result ELSE Failure(ParseFailedMessage(parseError))
       ELSE /\ pc' = "done"
            /\ result' = Failure(ParseFailedMessage(parseError))
            /\ UNCHANGED <<attempts, formSchema>>
    /\ UNCHANGED <<raw, jsonString, parseError, log, depth, start, i, jsonObjects,
                   validation>>
    /\ UNCHANGED outside

\* layout.tsx:215-241
Validate ==
    /\ pc = "validate"
    /\ result' = ValidateGenerated(formSchema)
    /\ pc' = "done"
    /\ UNCHANGED <<raw, jsonString, parseError, formSchema, attempts, log, depth, start,
                   i, jsonObjects, validation>>
    /\ UNCHANGED outside

Next ==
    \/ TrimText
    \/ StripFence
    \/ TrimBoundary
    \/ PrimaryParse
    \/ FallbackA
    \/ FallbackB
    \/ ScanStart
    \/ ScanStep
    \/ ParseLargest
    \/ Validate

Spec == Init /\ [][Next]_vars

-----------------------------------------------------------------------------
(* The two structural checks on one decoded value: the checks of            *)
(* generateFormInternal (layout.tsx:215-241) and validateFormSchema         *)
(* (form-validator.ts:8-26), each run once, in either order.                *)

MaxFields == 2

StrT == Str(<<"T">>)

FieldObject(id, label, type) ==
    Obj((IF id = Undefined THEN <<>> ELSE << <<KeyId, id>> >>)
        \o (IF label = Undefined THEN <<>> ELSE << <<KeyLabel, label>> >>)
        \o (IF type = Undefined THEN <<>> ELSE << <<KeyType, type>> >>))

\* A select field without options.
FieldSelect == FieldObject(Str(<<"a">>), Str(<<"S">>), Str(<<"s", "e", "l", "e", "c", "t">>))

\* A field whose type is none of the recognized kinds.
FieldUnknownType == FieldObject(Str(<<"a">>), Str(<<"A">>), Str(<<"x">>))

\* Elements of a fields array: a complete field, a select field without options,
\* one with an unrecognized type, fields that lack id or have an empty label or
\* a null type, and elements that are no object.  The first three share an id.
FieldElements ==
    { FieldObject(Str(<<"a">>), Str(<<"A">>), Str(<<"t", "e", "x", "t">>)),
      FieldSelect,
      FieldUnknownType,
      FieldObject(Undefined, Str(<<"A">>), Str(<<"t", "e", "x", "t">>)),
      FieldObject(Str(<<"b">>), Str(<<>>), Str(<<"t", "e", "x", "t">>)),
      FieldObject(Str(<<"b">>), Str(<<"B">>), Null),
      Null,
      Num(1) }

RECURSIVE SeqsOfLength(_, _)
SeqsOfLength(S, n) ==
    IF n = 0 THEN {<<>>}
    ELSE {Append(q, x) : q \in SeqsOfLength(S, n - 1), x \in S}

FieldArrays == UNION {SeqsOfLength(FieldElements, n) : n \in 0..MaxFields}

\* What the fields property may hold; Undefined: the property is absent.
FieldsValues == {Undefined, Null, StrT, Obj(<<>>)} \cup {Arr(q) : q \in FieldArrays}

\* What the formTitle property may hold; Undefined: the property is absent.
TitleValues == {Undefined, Null, Str(<<>>), StrT}

SchemaObject(title, fieldsKey, fields) ==
    Obj((IF title = Undefined THEN <<>> ELSE << <<KeyFormTitle, title>> >>)
        \o (IF fields = Undefined THEN <<>> ELSE << <<fieldsKey, fields>> >>))

KeyItems == <<"i", "t", "e", "m", "s">>

\* The decoded values given to the checks: objects with and without each
\* required property, objects whose array is named items, and values that are
\* no object.
Values ==
    {SchemaObject(t, k, f) : t \in TitleValues, k \in {KeyFields, KeyItems}, f \in FieldsValues}
    \cup {Null, Num(5), Num(0), StrT, Bool(TRUE), Arr(<<>>),
          Arr(<<SchemaObject(StrT, KeyFields, Arr(<<>>))>>)}

VInit ==
    /\ call = NoCall
    /\ home = HomeInitial
    /\ reader = NoFile
    /\ download = NoFile
    /\ route = NoRoute
    /\ raw = <<>>
    /\ jsonString = <<>>
    /\ pc = "validators"
    /\ parseError = NoError
    /\ formSchema \in Values
    /\ attempts = <<>>
    /\ log = NoLog
    /\ depth = 0
    /\ start = -1
    /\ i = 0
    /\ jsonObjects = <<>>
    /\ result = Pending
    /\ validation = NotValidated

\* layout.tsx:215-241 on the decoded value
RunGenerated ==
    /\ pc = "validators"
    /\ result.status = "pending"
    /\ result' = ValidateGenerated(formSchema)
    /\ UNCHANGED <<raw, jsonString, pc, parseError, formSchema, attempts, log, depth,
                   start, i, jsonObjects, validation>>
    /\ UNCHANGED outside

\* form-validator.ts:8-26 on the decoded value (page.tsx:89)
RunImported ==
    /\ pc = "validators"
    /\ validation.status = "pending"
    /\ validation' = ValidateFormSchema(formSchema)
    /\ UNCHANGED <<raw, jsonString, pc, parseError, formSchema, attempts, log, depth,
                   start, i, jsonObjects, result>>
    /\ UNCHANGED outside

VNext ==
    \/ RunGenerated
    \/ RunImported

VSpec == VInit /\ [][VNext]_vars

-----------------------------------------------------------------------------
(* generateForm (layout.tsx:48-76): the guards, the race of withTimeout       *)
(* (layout.tsx:31-42) and generateFormInternal from its request on           *)
(* (layout.tsx:110-134), followed by the steps above.                        *)

\* layout.tsx:64
TimeoutMessage ==
    Message("Timeout: The operation exceeded 60 seconds. Please try again.", NoError)

\* layout.tsx:52
KeyMissingMessage == Message("GEMINI_API_KEY is not configured", NoError)

\* layout.tsx:56
PromptRequiredMessage == Message("Prompt is required", NoError)

\* layout.tsx:129: the message interpolates response.status and
\* response.statusText.
ApiErrorMessage(status, statusText) ==
    [text |-> "Gemini API Error: <status> <statusText>", cause |-> NoError,
     status |-> status, statusText |-> statusText]

\* error.message of a rejected fetch, returned by the catch of layout.tsx:235-241.
FetchFailedMessage == Message("fetch failed", NoError)

\* error.message of the TypeError of reading data.candidates[0] when the body
\* has no candidates (layout.tsx:134), returned by the same catch.
NoCandidatesMessage ==
    Message("Cannot read properties of undefined (reading '0')", NoError)

\* error.message.includes('Timeout') (layout.tsx:67), decided on the fixed text
\* of the message and on the status text it interpolates.
IncludesTimeout(message) ==
    \/ message.text = TimeoutMessage.text
    \/ /\ "statusText" \in DOMAIN message
       /\ \E k \in 0..(Len(message.statusText) - 7) :
              SubSeq(message.statusText, k + 1, k + 7) = <<"T", "i", "m", "e", "o", "u", "t">>

\* The prompts generateForm is called with.
Prompts == {<<>>, <<" ", " ">>, <<"a", " ", "f", "o", "r", "m">>}

\* The responses of the upstream service.
Responses ==
    { [ok |-> TRUE, status |-> 200, statusText |-> <<"O", "K">>],
      [ok |-> FALSE, status |-> 429, statusText |-> <<"T", "o", "o", " ", "M", "a", "n", "y", " ", "R", "e", "q", "u", "e", "s", "t", "s">>],
      [ok |-> FALSE, status |-> 500, statusText |-> <<>>],
      [ok |-> FALSE, status |-> 504, statusText |-> <<"G", "a", "t", "e", "w", "a", "y", " ", "T", "i", "m", "e", "o", "u", "t">>] }

\* The completion texts of a successful response.
ResponseTexts ==
    { SchemaText, SchemaNoTitleText, SchemaNullFieldText, TwoObjectsText,
      FenceJson \o <<"\n">> \o SchemaText \o <<"\n">> \o Fence,
      <<"n", "u", "l", "l">>, <<"n", "o", "i", "s", "e">>, <<"{", "\"", "a", "\"">>,
      <<"{", "}", " ", "x", " ", "{", "\"", "a", "\"", "}">>, <<>> }

GInit ==
    /\ call = NoCall
    /\ home = HomeInitial
    /\ reader = NoFile
    /\ download = NoFile
    /\ route = NoRoute
    /\ raw = <<>>
    /\ jsonString = <<>>
    /\ pc = "idle"
    /\ parseError = NoError
    /\ formSchema = Undefined
    /\ attempts = <<>>
    /\ log = NoLog
    /\ depth = 0
    /\ start = -1
    /\ i = 0
    /\ jsonObjects = <<>>
    /\ result = Pending
    /\ validation = NotValidated

\* A generateForm that looks at the prompt before the key.
GenerateFormPromptFirst ==
    /\ call.state = "none"
    /\ \E apiKey \in BOOLEAN, prompt \in Prompts :
           IF Trim(prompt) = <<>>
           THEN /\ call' = [call EXCEPT !.state = "returned", !.apiKey = apiKey,
                                        !.prompt = prompt,
                                        !.returned = Failure(PromptRequiredMessage)]
                /\ UNCHANGED pc
           ELSE IF ~apiKey
           THEN /\ call' = [call EXCEPT !.state = "returned", !.apiKey = apiKey,
                                        !.prompt = prompt,
                                        !.returned = Failure(KeyMissingMessage)]
                /\ UNCHANGED pc
           ELSE /\ call' = [call EXCEPT !.state = "racing", !.timer = "armed",
                                        !.apiKey = apiKey, !.prompt = prompt,
                                        !.requests = call.requests + 1]
                /\ pc' = "fetching"
    /\ UNCHANGED <<raw, jsonString, parseError, formSchema, attempts, log, depth, start,
                   i, jsonObjects, result, validation, home, reader, download, route>>

\* layout.tsx:48-65: the guards, then withTimeout(generateFormInternal(..)),
\* which arms the timer and runs generateFormInternal up to its fetch.
GenerateForm ==
    /\ call.state = "none"
    /\ \E apiKey \in BOOLEAN, prompt \in Prompts :
           IF ~apiKey
           THEN /\ call' = [call EXCEPT !.state = "returned", !.apiKey = apiKey,
                                        !.prompt = prompt,
                                        !.returned = Failure(KeyMissingMessage)]
                /\ UNCHANGED pc
           ELSE IF Trim(prompt) = <<>>
           THEN /\ call' = [call EXCEPT !.state = "returned", !.apiKey = apiKey,
                                        !.prompt = prompt,
                                        !.returned = Failure(PromptRequiredMessage)]
                /\ UNCHANGED pc
           ELSE /\ call' = [call EXCEPT !.state = "racing", !.timer = "armed",
                                        !.apiKey = apiKey, !.prompt = prompt,
                                        !.requests = call.requests + 1]
                /\ pc' = "fetching"
    /\ UNCHANGED <<raw, jsonString, parseError, formSchema, attempts, log, depth, start,
                   i, jsonObjects, result, validation, home, reader, download, route>>

\* A generateFormInternal that runs the cascade on the body of any response.
FetchSettlesIgnoresStatus ==
    /\ pc = "fetching"
    /\ \E r \in Responses, text \in ResponseTexts :
           /\ call' = [call EXCEPT !.response = r]
           /\ raw' = text
           /\ jsonString' = text
           /\ pc' = "trim"
           /\ UNCHANGED result
    /\ UNCHANGED <<parseError, formSchema, attempts, log, depth, start, i, jsonObjects,
                   validation, home, reader, download, route>>

\* layout.tsx:112-134: the fetch settles.  A rejection and a body without
\* candidates throw inside the try and are returned by the catch of lines
\* 235-241; a response that is not ok is returned at lines 124-131.
FetchSettles ==
    /\ pc = "fetching"
    /\ \/ /\ result' = Failure(FetchFailedMessage)
          /\ pc' = "done"
          /\ UNCHANGED <<call, raw, jsonString>>
       \/ \E r \in Responses :
              /\ call' = [call EXCEPT !.response = r]
              /\ IF ~r.ok
                 THEN /\ result' = Failure(ApiErrorMessage(r.status, r.statusText))
                      /\ pc' = "done"
                      /\ UNCHANGED <<raw, jsonString>>
                 ELSE \/ /\ result' = Failure(NoCandidatesMessage)
                         /\ pc' = "done"
                         /\ UNCHANGED <<raw, jsonString>>
                      \/ \E text \in ResponseTexts :
                             /\ raw' = text
                             /\ jsonString' = text
                             /\ pc' = "trim"
                             /\ UNCHANGED result
    /\ UNCHANGED <<parseError, formSchema, attempts, log, depth, start, i, jsonObjects,
                   validation, home, reader, download, route>>

\* A timer whose firing replaces whatever the call returned.
TimerFiresOverrides ==
    /\ call.timer = "armed"
    /\ call' = [call EXCEPT !.timer = "fired",
                            !.events = Append(call.events, "timer"),
                            !.state = "returned",
                            !.returned = Failure(TimeoutMessage)]
    /\ UNCHANGED <<raw, jsonString, pc, parseError, formSchema, attempts, log, depth,
                   start, i, jsonObjects, result, validation, home, reader, download, route>>

\* layout.tsx:39, 66-69: the timer of withTimeout fires and rejects the race;
\* if the race is still awaited, the catch returns the timeout failure.
TimerFires ==
    /\ call.timer = "armed"
    /\ call' = [call EXCEPT !.timer = "fired",
                            !.events = Append(call.events, "timer"),
                            !.state = "returned",
                            !.returned = IF call.state = "racing"
                                         THEN Failure(TimeoutMessage)
                                         ELSE call.returned]
    /\ UNCHANGED <<raw, jsonString, pc, parseError, formSchema, attempts, log, depth,
                   start, i, jsonObjects, result, validation, home, reader, download, route>>

\* layout.tsx:36-37, 61: the promise of generateFormInternal settles with its
\* return value; if the race is still awaited, generateForm returns that value.
InternalSettles ==
    /\ pc = "done"
    /\ call.state # "none"
    /\ \A k \in 1..Len(call.events) : call.events[k] # "settled"
    /\ call' = [call EXCEPT !.events = Append(call.events, "settled"),
                            !.state = "returned",
                            !.returned = IF call.state = "racing"
                                         THEN result
                                         ELSE call.returned]
    /\ UNCHANGED <<raw, jsonString, pc, parseError, formSchema, attempts, log, depth,
                   start, i, jsonObjects, result, validation, home, reader, download, route>>

GNext ==
    \/ GenerateForm
    \/ FetchSettles
    \/ TimerFires
    \/ InternalSettles
    \/ TrimText
    \/ StripFence
    \/ TrimBoundary
    \/ PrimaryParse
    \/ FallbackA
    \/ FallbackB
    \/ ScanStart
    \/ ScanStep
    \/ ParseLargest
    \/ Validate

GSpec == GInit /\ [][GNext]_vars

-----------------------------------------------------------------------------
(* The Home component (page.tsx:19-122): its state and its handlers.  A call *)
(* of generateForm is taken as a whole, by the values it can return.        *)

\* What generateFormInternal, generateForm, the validators and the route work on.
inner == <<raw, jsonString, pc, parseError, formSchema, attempts, log, depth, start, i,
           jsonObjects, result, validation, call, route>>

Spaces(n) == [k \in 1..n |-> " "]

DigitChar(d) == SubSeq(<<"0", "1", "2", "3", "4", "5", "6", "7", "8", "9">>, d + 1, d + 1)

\* The decimal digits of a natural number.
RECURSIVE NumberText(_)
NumberText(n) == IF n < 10 THEN DigitChar(n) ELSE NumberText(n \div 10) \o DigitChar(n % 10)

\* A quoted string that is written without its quotes.
QuoteTextBare(s) == s

\* A quoted string; the strings of the model hold no character that JSON.stringify
\* escapes (no quote, backslash or control character).
QuoteText(s) == <<"\"">> \o s \o <<"\"">>

\* The texts of the sequence parts, joined by a comma and a line break, each
\* indented by indent spaces.
RECURSIVE JoinLines(_, _)
JoinLines(parts, indent) ==
    IF Len(parts) = 1 THEN Spaces(indent) \o parts[1]
    ELSE JoinLines(SubSeq(parts, 1, Len(parts) - 1), indent)
         \o <<",", "\n">> \o Spaces(indent) \o parts[Len(parts)]

\* JSON.stringify(v, null, 2) for a value v at nesting depth indent / 2
\* (page.tsx:61).
RECURSIVE StringifyAt(_, _)
StringifyAt(v, indent) ==
    CASE v.type = "null" -> <<"n", "u", "l", "l">>
      [] v.type = "boolean" -> IF v.val THEN <<"t", "r", "u", "e">>
                               ELSE <<"f", "a", "l", "s", "e">>
      [] v.type = "number" -> NumberText(v.val)
      [] v.type = "string" -> QuoteText(v.val)
      [] v.type = "array" ->
            IF v.val = <<>> THEN <<"[", "]">>
            ELSE <<"[", "\n">>
                 \o JoinLines([k \in 1..Len(v.val) |-> StringifyAt(v.val[k], indent + 2)],
                              indent + 2)
                 \o <<"\n">> \o Spaces(indent) \o <<"]">>
      [] v.type = "object" ->
            IF v.val = <<>> THEN <<"{", "}">>
            ELSE <<"{", "\n">>
                 \o JoinLines([k \in 1..Len(v.val) |->
                                  QuoteText(v.val[k][1]) \o <<":", " ">>
                                  \o StringifyAt(v.val[k][2], indent + 2)],
                              indent + 2)
                 \o <<"\n">> \o Spaces(indent) \o <<"}">>

Stringify(v) == StringifyAt(v, 0)

\* The setTimeout callbacks of showToast that may be pending at once.
MaxToastTimers == 2

\* The decoded values a call of generateForm may have checked.
HomeValues ==
    { SchemaObject(StrT, KeyFields, Arr(<<>>)),
      SchemaObject(StrT, KeyFields, Arr(<<FieldSelect, Num(1)>>)),
      SchemaObject(StrT, KeyFields, Arr(<<FieldSelect>>)),
      SchemaObject(Undefined, KeyFields, Arr(<<>>)) }

\* The values a call of generateForm returns (layout.tsx:48-76): the outcomes of
\* the structural check, and the failures before it.
GenerateFormResults ==
    {ValidateGenerated(v) : v \in HomeValues}
    \cup { Failure(TimeoutMessage),
           Failure(ApiErrorMessage(429, <<"T", "o", "o", " ", "M", "a", "n", "y", " ", "R", "e", "q", "u", "e", "s", "t", "s">>)) }

\* The schema inside a Markdown code fence, and between two pieces of prose.
FencedSchemaText == <<BT, BT, BT, "j", "s", "o", "n", "\n">> \o SchemaText \o <<"\n", BT, BT, BT>>

ProseSchemaText == <<"H", "e", "r", "e", ":", " ">> \o SchemaText \o <<" ", "e", "n", "d">>

\* The files a user may pick, besides the last download.
FileTexts ==
    { SchemaText, SchemaNoTitleText, SchemaNullFieldText, SchemaItemsText,
      <<"n", "u", "l", "l">>, FencedSchemaText, ProseSchemaText }

\* page.tsx:119-122
ShowToast(h, message) ==
    [h EXCEPT !.toastMessage = message, !.timers = h.timers + 1]

HInit ==
    /\ call = NoCall
    /\ home = HomeInitial
    /\ reader = NoFile
    /\ download = NoFile
    /\ route = NoRoute
    /\ raw = <<>>
    /\ jsonString = <<>>
    /\ pc = "home"
    /\ parseError = NoError
    /\ formSchema = Undefined
    /\ attempts = <<>>
    /\ log = NoLog
    /\ depth = 0
    /\ start = -1
    /\ i = 0
    /\ jsonObjects = <<>>
    /\ result = Pending
    /\ validation = NotValidated

\* page.tsx:143, 147: typing in the textarea, which is disabled while pending.
SetPrompt ==
    /\ ~home.isPending
    /\ \E prompt \in Prompts : home' = [home EXCEPT !.prompt = prompt]
    /\ UNCHANGED <<inner, reader, download>>

\* handleGenerate on a control that stays enabled while a generation is pending.
HandleGenerateUnguarded ==
    /\ home.generations < 2
    /\ Trim(home.prompt) # <<>>
    /\ home' = [home EXCEPT !.error = NoMessage, !.formSchema = Null,
                            !.isPending = TRUE, !.generations = home.generations + 1]
    /\ UNCHANGED <<inner, reader, download>>

\* page.tsx:27-37: the synchronous part of handleGenerate on the state h; a
\* prompt that is empty once trimmed is rejected.
HandleGenerateOn(h) ==
    IF Trim(h.prompt) = <<>>
    THEN [h EXCEPT !.error = Message("Please enter a form description", NoError)]
    ELSE [h EXCEPT !.error = NoMessage, !.formSchema = Null,
                   !.isPending = TRUE, !.generations = h.generations + 1]

\* page.tsx:27-37, with the guards of the button and the Enter key (lines 151,
\* 158): the transition starts and generateForm is called.
HandleGenerate ==
    /\ ~home.isPending
    /\ Trim(home.prompt) # <<>>
    /\ home' = HandleGenerateOn(home)
    /\ UNCHANGED <<inner, reader, download>>

\* page.tsx:38-45: generateForm has returned; isPending ends with the last
\* pending call of the transition.
GenerateReturns ==
    /\ home.generations > 0
    /\ \E r \in GenerateFormResults :
           home' = IF r.status = "success"
                   THEN [home EXCEPT !.formSchema = r.schema,
                                     !.generations = home.generations - 1,
                                     !.isPending = home.generations > 1]
                   ELSE [home EXCEPT !.error = r.error,
                                     !.generations = home.generations - 1,
                                     !.isPending = home.generations > 1]
    /\ UNCHANGED <<inner, reader, download>>

\* page.tsx:48-52; the toolbar is rendered only while a schema is held (line 223).
HandleReset ==
    /\ home.formSchema # Null
    /\ home' = [home EXCEPT !.prompt = <<>>, !.formSchema = Null, !.error = NoMessage]
    /\ UNCHANGED <<inner, reader, download>>

\* page.tsx:54-57; the examples are rendered only while no schema is held (line 195).
HandleExampleClick ==
    /\ home.formSchema = Null
    /\ home' = [home EXCEPT !.prompt = <<"a", " ", "f", "o", "r", "m">>, !.error = NoMessage]
    /\ UNCHANGED <<inner, reader, download>>

\* page.tsx:59-72; schema: history, the value the text was written from.
HandleExport ==
    /\ home.formSchema # Null
    /\ home.timers < MaxToastTimers
    /\ download' = [present |-> TRUE, text |-> Stringify(home.formSchema),
                    schema |-> home.formSchema]
    /\ home' = ShowToast(home, "JSON exported successfully!")
    /\ UNCHANGED <<inner, reader>>

\* page.tsx:79-83, 102: a file was picked, and a FileReader starts reading it;
\* one reader at a time.
HandleFileChange ==
    /\ home.formSchema # Null
    /\ ~reader.present
    /\ \E text \in FileTexts \cup {download.text} :
           reader' = [present |-> TRUE, text |-> text, schema |-> Undefined]
    /\ UNCHANGED <<inner, home, download>>

ImportParseFailedMessage ==
    Message("Failed to parse JSON file. Please check the file format.", NoError)

\* An import that holds the decoded value whatever validateFormSchema says.
OnLoadUnchecked(h, text, r) ==
    IF ~r.ok THEN [h EXCEPT !.error = ImportParseFailedMessage]
    ELSE ShowToast([h EXCEPT !.formSchema = r.val, !.error = NoMessage],
                   "Form loaded successfully!")

\* An import that decodes what the cleaning of generateFormInternal leaves of the
\* text.
OnLoadCleaned(h, text, r) ==
    LET c == JSONParse(ExtractBoundaries(StripFences(Trim(text))))
    IN  IF ~c.ok THEN [h EXCEPT !.error = ImportParseFailedMessage]
        ELSE ShowToast([h EXCEPT !.formSchema = c.val, !.error = NoMessage],
                       "Form loaded successfully!")

\* page.tsx:84-101: the body of reader.onload on the text of the file, r the
\* outcome of JSON.parse(text); a fault of validateFormSchema is caught like a
\* fault of JSON.parse.
OnLoad(h, text, r) ==
    IF ~r.ok THEN [h EXCEPT !.error = ImportParseFailedMessage]
    ELSE LET v == ValidateFormSchema(r.val)
         IN  IF v.status = "threw" THEN [h EXCEPT !.error = ImportParseFailedMessage]
             ELSE IF ~v.isValid THEN [h EXCEPT !.error = Message(v.error, NoError)]
             ELSE ShowToast([h EXCEPT !.formSchema = r.val, !.error = NoMessage],
                            "Form loaded successfully!")

\* page.tsx:84-101: reader.onload.  The text stays in reader as history.
ReaderLoads ==
    /\ reader.present
    /\ home.timers < MaxToastTimers
    /\ reader' = [reader EXCEPT !.present = FALSE]
    /\ home' = OnLoad(home, reader.text, JSONParse(reader.text))
    /\ UNCHANGED <<inner, download>>

\* code-generator.ts:76-78: schema.fields.map and schema.formTitle.replace throw
\* a TypeError on a schema whose fields are no array or whose title is no string.
CodeGenerationThrows(schema) ==
    \/ ~IsArray(GetProp(schema, KeyFields))
    \/ GetProp(schema, KeyFormTitle).type # "string"

\* page.tsx:109-113: the code is generated and the clipboard write starts; a
\* fault of the generator leaves the handler before the write; one write at a
\* time.
HandleCopyCode ==
    /\ home.formSchema # Null
    /\ home.copies = 0
    /\ home' = IF CodeGenerationThrows(home.formSchema) THEN home
               ELSE [home EXCEPT !.copies = home.copies + 1]
    /\ UNCHANGED <<inner, reader, download>>

\* page.tsx:113-116: the promise of navigator.clipboard.writeText settles.
ClipboardSettles ==
    /\ home.copies > 0
    /\ \E written \in BOOLEAN :
           IF written
           THEN /\ home.timers < MaxToastTimers
                /\ home' = ShowToast([home EXCEPT !.copies = home.copies - 1],
                                     "JSX code copied to clipboard!")
           ELSE home' = [home EXCEPT !.copies = home.copies - 1,
                                     !.error = Message("Failed to copy to clipboard", NoError)]
    /\ UNCHANGED <<inner, reader, download>>

\* page.tsx:121: a setTimeout callback of showToast runs.
ToastTimerFires ==
    /\ home.timers > 0
    /\ home' = [home EXCEPT !.toastMessage = "null", !.timers = home.timers - 1]
    /\ UNCHANGED <<inner, reader, download>>

HNext ==
    \/ SetPrompt
    \/ HandleGenerate
    \/ GenerateReturns
    \/ HandleReset
    \/ HandleExampleClick
    \/ HandleExport
    \/ HandleFileChange
    \/ ReaderLoads
    \/ HandleCopyCode
    \/ ClipboardSettles
    \/ ToastTimerFires

HSpec == HInit /\ [][HNext]_vars

-----------------------------------------------------------------------------
(* Vocabulary of the properties *)

LastAttempt == attempts[Len(attempts)]

\* The cascade is over: a value was decoded, or the failure was returned.
ExtractionOver == pc \in {"validate", "done"} /\ Len(attempts) > 0

Recovered == ExtractionOver /\ LastAttempt.ok

ExtractionFailed == pc = "done" /\ Len(attempts) > 0 /\ ~LastAttempt.ok

\* The first decode attempt was made on cand, succeeded, and no other followed:
\* the value handed on is the decoded cand.
DecodedAtOnce(cand) ==
    /\ Len(attempts) = 1
    /\ attempts[1].stage = "primary"
    /\ attempts[1].cand = cand
    /\ attempts[1].ok
    /\ formSchema = JSONParse(cand).val

\* Some attempt decoded cand, and its value is the one handed on.
RecoveredFrom(cand) ==
    /\ LastAttempt.ok
    /\ LastAttempt.cand = cand
    /\ formSchema = JSONParse(cand).val

\* No { of s is followed, anywhere later in s, by a }.
NoBracePair(s) ==
    ~\E a \in 1..Len(s) : \E b \in (a + 1)..Len(s) : s[a] = "{" /\ s[b] = "}"

\* s starts with { and ends with }.
BraceDelimited(s) == Len(s) >= 2 /\ s[1] = "{" /\ s[Len(s)] = "}"

\* Every brace of s stands outside the strings of s (texts have no escapes: a
\* character is inside a string when an odd number of quotes precedes it).
BracesOutsideStrings(s) ==
    \A k \in 1..Len(s) :
        s[k] \in {"{", "}"} => Cardinality({j \in 1..(k - 1) : s[j] = "\""}) % 2 = 0

SchemaXObject == <<"{", "\"", "f", "o", "r", "m", "T", "i", "t", "l", "e", "\"", ":", "\"", "X", "\"", ",", "\"", "f", "i", "e", "l", "d", "s", "\"", ":", "[", "]", "}">>

\* The complete JSON objects the properties quantify over.
ValidObjects == {o \in Objects \cup {SchemaXObject} : JSONParse(o).ok}

PlainObjects == {o \in ValidObjects : BracesOutsideStrings(o)}

\* Prose without braces.
Prose == {<<>>, <<" ", "x", " ">>, <<"n", "o", "i", "s", "e", " ">>, <<" ", "m", "o", "r", "e", " ">>, <<" ", "e", "n", "d">>}

ClosingFences == {c \in FenceCloses : c # <<>>}

LongerOf(a, b) == IF Len(a) > Len(b) THEN a ELSE b

\* For every text made of two objects of objs of different lengths, with prose
\* before, between and after them: once the run is over, the longer object was
\* decoded and its value handed on.
LongerOfTwoRecovered(objs) ==
    pc = "done" =>
        \A o1 \in objs, o2 \in objs :
            Len(o1) # Len(o2) =>
                \A g0 \in Prose, g1 \in Prose, g2 \in Prose :
                    (/\ Len(raw) = Len(g0) + Len(o1) + Len(g1) + Len(o2) + Len(g2)
                     /\ raw = g0 \o o1 \o g1 \o o2 \o g2)
                    => RecoveredFrom(LongerOf(o1, o2))

\* The indices of the longest candidates of the depth scan.
LongestCandidates ==
    {k \in 1..Len(jsonObjects) :
        \A m \in 1..Len(jsonObjects) : Len(jsonObjects[m]) <= Len(jsonObjects[k])}

ScanSelected == ExtractionOver /\ LastAttempt.stage = "scan"

StageRank(stage) ==
    CASE stage = "primary" -> 1
      [] stage = "regex" -> 2
      [] stage = "boundaries" -> 3
      [] stage = "scan" -> 4

\* Whether text hay holds text needle as a contiguous part.
Contains(hay, needle) ==
    \E k \in 0..(Len(hay) - Len(needle)) : SubSeq(hay, k + 1, k + Len(needle)) = needle

\* The most characters of the decoded text, on each side of the offending
\* position, that the message of a SyntaxError of JSON.parse quotes (engines
\* quote the offending token alone, or this much context around it).
MaxContextCharacters == 10

\* The part of source that the message of decode error err can quote: nothing at
\* an unexpected end, else at most MaxContextCharacters around err.pos.
QuotedText(source, err) ==
    IF err.name # "SyntaxError" \/ err.tok = "EOF"
    THEN <<>>
    ELSE SubSeq(source,
                IF err.pos + 1 > MaxContextCharacters
                THEN err.pos + 1 - MaxContextCharacters ELSE 1,
                Min(Len(source), err.pos + 1 + MaxContextCharacters))

\* The characters of the completion the returned failure message holds: those
\* its decode error quotes (layout.tsx:208 interpolates parseError.message only).
MessageQuotes == QuotedText(attempts[1].cand, result.error.cause)

-----------------------------------------------------------------------------
(* Properties of the extraction cascade, under Spec *)

C2_LongerOfAnyTwoObjects == LongerOfTwoRecovered(ValidObjects)

\* What does hold of two objects: the longer is recovered when no brace stands
\* inside a string of either object (the depth scan counts every brace).
LongerOfTwoPlainObjects == LongerOfTwoRecovered(PlainObjects)

\* C3 (as stated): among several candidates of the greatest length the depth
\* scan selects the one found first.
C3_TieSelectsFirstFound ==
    ScanSelected =>
        LastAttempt.cand = jsonObjects[CHOOSE k \in LongestCandidates :
                                           \A m \in LongestCandidates : k <= m]

\* C3 (amended): among several candidates of the greatest length the depth
\* scan selects the one found last.
C3_TieSelectsLastFound ==
    ScanSelected =>
        LastAttempt.cand = jsonObjects[CHOOSE k \in LongestCandidates :
                                           \A m \in LongestCandidates : k >= m]

\* C3 witness: the scan selected among two different candidates of the same,
\* greatest length.
C3_Witness ==
    /\ ScanSelected
    /\ \E j \in LongestCandidates, k \in LongestCandidates :
           j < k /\ jsonObjects[j] # jsonObjects[k]

\* C4: one JSON object inside a Markdown code fence, with or without a language
\* tag and with a closing fence, is recovered exactly.
C4_FencedObjectRecovered ==
    pc = "done" =>
        \A o \in FenceOpens, b \in ValidObjects, c \in ClosingFences :
            raw = o \o b \o c => RecoveredFrom(b)

\* C4 witness: a fenced object was recovered from a text with the json tag, and
\* the fence was stripped on the way.
C4_Witness ==
    /\ pc = "done"
    /\ StartsWith(raw, FenceJson)
    /\ \E b \in ValidObjects, c \in ClosingFences : raw = FenceJson \o <<"\n">> \o b \o c
    /\ Recovered
    /\ ~StartsWith(LastAttempt.cand, Fence)

\* C5: brace-free prose, one JSON object, brace-free prose: the object is
\* recovered by the first decode attempt, on the substring from the first { to
\* the last }.
C5_ObjectInProseRecovered ==
    ExtractionOver =>
        \A g0 \in Prose, b \in ValidObjects, g1 \in Prose :
            raw = g0 \o b \o g1 => DecodedAtOnce(b)

\* C5 witness: an object with prose on both sides was recovered.
C5_Witness ==
    /\ pc = "done"
    /\ \E b \in ValidObjects : raw = <<" ", "x", " ">> \o b \o <<" ", "x", " ">> /\ DecodedAtOnce(b)
    /\ jsonString # Trim(raw)

\* C6: when no stage decodes anything, the run ends with a returned failure
\* whose diagnostic is not empty; every run that ends, ends with a returned
\* value, and nothing is returned before the end.
C6_FailureIsReturnedValue ==
    /\ ExtractionFailed => (result.status = "failure" /\ result.error.text # "")
    /\ pc = "done" <=> result.status \in {"success", "failure"}
    /\ (Len(attempts) = 4 /\ ~LastAttempt.ok) => pc = "done"

\* C6 witness: a text with an unclosed object ended in the returned failure.
C6_Witness ==
    /\ ExtractionFailed
    /\ raw = <<"{", "\"", "a", "\"">>
    /\ result.status = "failure"

-----------------------------------------------------------------------------
(* Properties of the structural checks, under VSpec *)

\* Present and not empty: neither absent, null, false, 0 nor the empty string.
NonEmpty(v) == Truthy(v)

\* The contract of a schema: a non-null object with a non-empty formTitle and
\* an array fields whose every element has non-empty id, label and type.
WellFormed(v) ==
    /\ v.type = "object"
    /\ NonEmpty(GetProp(v, KeyFormTitle))
    /\ IsArray(GetProp(v, KeyFields))
    /\ \A k \in 1..Len(GetProp(v, KeyFields).val) :
           LET field == GetProp(v, KeyFields).val[k]
           IN  /\ NonEmpty(GetProp(field, KeyId))
               /\ NonEmpty(GetProp(field, KeyLabel))
               /\ NonEmpty(GetProp(field, KeyType))

\* C10: each structural check accepts a decoded value exactly when it is a
\* non-null object with a non-empty formTitle, an array fields, and non-empty
\* id, label and type in every element of fields.
C10_ValidExactlyWhenWellFormed ==
    /\ result.status # "pending" => (result.status = "success" <=> WellFormed(formSchema))
    /\ validation.status # "pending" => (validation.isValid <=> WellFormed(formSchema))

\* What does hold: the check of generateFormInternal accepts exactly the
\* well-formed values, and validateFormSchema accepts every well-formed value.
GeneratedValidExactlyWhenWellFormed ==
    /\ result.status # "pending" => (result.status = "success" <=> WellFormed(formSchema))
    /\ (validation.status # "pending" /\ WellFormed(formSchema)) => validation.isValid

\* C11 (as stated): the check of generateFormInternal and validateFormSchema
\* accept the same decoded values.
C11_ChecksAgree ==
    (result.status # "pending" /\ validation.status # "pending")
    => ((result.status = "success") <=> validation.isValid)

\* C12 (as stated): a decoded value that is null, an array or a primitive is
\* rejected by the check of generateFormInternal with the combined 'missing
\* formTitle or fields' message.
C12_NonObjectGetsCombinedMessage ==
    (result.status # "pending" /\ formSchema.type # "object")
    => result = Failure(MissingMessage)

\* What does hold: arrays and primitives get the combined message, and null is
\* rejected with the message of the TypeError of reading formTitle of null.
NonObjectRejected ==
    (result.status # "pending" /\ formSchema.type # "object")
    => result = Failure(IF formSchema = Null THEN TypeErrorMessage("formTitle")
                        ELSE MissingMessage)

\* The decoded value has an array fields with an element that is no object with
\* non-empty id, label and type.
HasBadField ==
    /\ IsArray(GetProp(formSchema, KeyFields))
    /\ FirstBadField(GetProp(formSchema, KeyFields).val) # 0

\* C13 (as stated): every rejection is a returned value: validateFormSchema
\* returns {isValid: false, error} and never throws, and a value that passes the
\* top-level checks with a bad element in fields - null and primitives included -
\* gets the 'invalid field structure' failure of the generation path.
C13_RejectionsAreReturned ==
    /\ validation.status # "pending" => validation.status = "returned"
    /\ (/\ result.status # "pending"
        /\ formSchema.type = "object"
        /\ ~TopLevelInvalid(formSchema)
        /\ HasBadField)
       => result = Failure(FieldMessage)

\* A top-level check of the claim fails: fields is no array, or formTitle is
\* missing or empty.
TopLevelFails(v) ==
    ~IsArray(GetProp(v, KeyFields)) \/ ~NonEmpty(GetProp(v, KeyFormTitle))

C17_UncheckedPropertiesTolerated ==
    WellFormed(formSchema) =>
        /\ result.status # "pending" => result = Success(formSchema)
        /\ validation.status # "pending" => validation = Returned(TRUE, "")

\* C17 witness: both checks accepted a schema whose two fields share an id, one
\* a select field without options and one of an unrecognized type.
C17_Witness ==
    /\ formSchema = SchemaObject(StrT, KeyFields, Arr(<<FieldSelect, FieldUnknownType>>))
    /\ GetProp(FieldSelect, KeyId) = GetProp(FieldUnknownType, KeyId)
    /\ GetProp(FieldSelect, <<"o", "p", "t", "i", "o", "n", "s">>) = Undefined
    /\ GetProp(FieldUnknownType, KeyType) \notin RecognizedTypes
    /\ result.status = "success"
    /\ validation.isValid

-----------------------------------------------------------------------------
(* Properties of generateForm, under GSpec *)

\* The timer of withTimeout fired before generateFormInternal settled.
TimerFiredFirst == call.events # <<>> /\ call.events[1] = "timer"

TimeoutExactlyWhenTimerFirst ==
    call.state = "returned" =>
        (call.returned = Failure(TimeoutMessage) <=> TimerFiredFirst)

\* C19: within one call of generateForm at most one upstream request is issued,
\* the cascade runs at most once (its attempts only grow, in the order of the
\* stages), the value generateFormInternal returns is set at most once, a
\* finished generateFormInternal stays finished, and after a failure no further
\* request is issued.
C19_NothingRetried ==
    [][/\ call'.requests <= 1
       /\ call'.requests >= call.requests
       /\ result.status = "failure" => call'.requests = call.requests
       /\ result # Pending => result' = result
       /\ pc = "done" => pc' = "done"
       /\ (pc' = "fetching" /\ pc # "fetching") => pc = "idle"
       /\ (pc' = "trim" /\ pc # "trim") => (pc = "fetching" /\ attempts = <<>>)
       /\ Len(attempts') >= Len(attempts)
       /\ \A k \in 2..Len(attempts') :
              StageRank(attempts'[k - 1].stage) < StageRank(attempts'[k].stage)]_vars

\* C19 witness: the cascade failed on the completion of the only request, and
\* generateForm returned that failure.
C19_Witness ==
    /\ call.state = "returned"
    /\ call.requests = 1
    /\ Len(attempts) = 4
    /\ ~LastAttempt.ok
    /\ call.returned = Failure(ParseFailedMessage(parseError))

\* The upstream service answered with a status that is not a success.
UpstreamRefused == call.response # NoResponse /\ ~call.response.ok

\* The failure that passes the upstream status on.
Passthrough == Failure(ApiErrorMessage(call.response.status, call.response.statusText))

-----------------------------------------------------------------------------
(* Properties of the Home component, under HSpec *)

C16_HeldSchemaHasTitle ==
    home.formSchema # Null => NonEmpty(GetProp(home.formSchema, KeyFormTitle))

-----------------------------------------------------------------------------
(* The route POST /api/generate-form (route.ts:8-100) *)

\* What the route leaves alone.
notRoute == <<raw, jsonString, pc, parseError, formSchema, attempts, log, depth, start, i,
              jsonObjects, result, validation, call, home, reader, download>>

KeyDescription == <<"d", "e", "s", "c", "r", "i", "p", "t", "i", "o", "n">>

\* NextResponse.json({ error }, { status })
RouteError(status, error) == [status |-> status, error |-> error, schema |-> Undefined]

\* NextResponse.json({ schema }), with the default status
RouteSchema(schema) == [status |-> 200, error |-> "", schema |-> schema]

\* route.ts:93-99: the catch of the handler.
RouteCaught == RouteError(500, "Failed to generate form. Please try again.")

\* s.replace(/^<marker>\n?/, ''): drops a leading marker, matched as written, and
\* one line break after it.
RouteStripLeading(s, marker) ==
    IF ~StartsWith(s, marker) THEN s
    ELSE IF Len(s) > Len(marker) /\ s[Len(marker) + 1] = "\n"
    THEN SubSeq(s, Len(marker) + 2, Len(s))
    ELSE SubSeq(s, Len(marker) + 1, Len(s))

\* s.replace(/\n?```$/, ''): drops a fence at the very end of s and one line
\* break before it.
RouteStripTrailing(s) ==
    IF Len(s) < 3 \/ SubSeq(s, Len(s) - 2, Len(s)) # Fence THEN s
    ELSE IF Len(s) > 3 /\ s[Len(s) - 3] = "\n"
    THEN SubSeq(s, 1, Len(s) - 4)
    ELSE SubSeq(s, 1, Len(s) - 3)

\* route.ts:63-69
RouteClean(text) ==
    IF StartsWith(Trim(text), FenceJson)
    THEN RouteStripTrailing(RouteStripLeading(Trim(text), FenceJson))
    ELSE IF StartsWith(Trim(text), Fence)
    THEN RouteStripTrailing(RouteStripLeading(Trim(text), Fence))
    ELSE Trim(text)

\* route.ts:75-92: the checks on the decoded completion v.  Reading a property
\* of null throws a TypeError, which the catch answers.
RouteChecked(v) ==
    IF Nullish(v) THEN RouteCaught
    ELSE IF TopLevelInvalid(v) THEN RouteError(500, "Invalid form schema generated")
    ELSE LET fields == GetProp(v, KeyFields).val
             k == FirstBadField(fields)
         IN  IF k = 0 THEN RouteSchema(v)
             ELSE IF Nullish(fields[k]) THEN RouteCaught
             ELSE RouteError(500, "Invalid field structure in generated schema")

\* route.ts:63-92: the answer to a completion text; r: the outcome of
\* JSON.parse on the cleaned text.
RouteAnswerOf(r) == IF ~r.ok THEN RouteCaught ELSE RouteChecked(r.val)

RouteAnswer(text) == RouteAnswerOf(JSONParse(RouteClean(text)))

\* route.ts:10: the description the destructuring reads from the decoded body
\* r (undefined for a value that has no such property); destructuring null
\* throws.
DescriptionOf(r) == IF r.ok THEN GetProp(r.val, KeyDescription) ELSE Undefined

\* The bodies of the requests: no JSON, null, a number, objects without a
\* description and with a number, an empty, a blank and a plain one.
RequestTexts ==
    { <<"n", "o", "i", "s", "e">>, <<"n", "u", "l", "l">>, <<"5">>, <<"{", "}">>,
      <<"{", "\"", "d", "e", "s", "c", "r", "i", "p", "t", "i", "o", "n", "\"", ":", "5", "}">>,
      <<"{", "\"", "d", "e", "s", "c", "r", "i", "p", "t", "i", "o", "n", "\"", ":", "\"", "\"", "}">>,
      <<"{", "\"", "d", "e", "s", "c", "r", "i", "p", "t", "i", "o", "n", "\"", ":", "\"", " ", " ", "\"", "}">>,
      <<"{", "\"", "d", "e", "s", "c", "r", "i", "p", "t", "i", "o", "n", "\"", ":", "\"", "a", " ", "f", "o", "r", "m", "\"", "}">> }

\* The completions of the model: every decoded value of the checks as
\* JSON.stringify writes it, the schema inside code fences, and prose.
CompletionTexts ==
    {Stringify(v) : v \in Values}
    \cup { FenceJson \o <<"\n">> \o SchemaText \o <<"\n">> \o Fence,
           Fence \o SchemaText \o Fence,
           <<BT, BT, BT, "J", "S", "O", "N", "\n">> \o SchemaText \o <<"\n">> \o Fence,
           FenceJson \o <<"\n", "\n">> \o SchemaText \o <<"\n", "\n">> \o Fence,
           <<"n", "o", "i", "s", "e">>, <<>> }

RInit ==
    /\ call = NoCall
    /\ home = HomeInitial
    /\ reader = NoFile
    /\ download = NoFile
    /\ route = NoRoute
    /\ raw = <<>>
    /\ jsonString = <<>>
    /\ pc = "route"
    /\ parseError = NoError
    /\ formSchema = Undefined
    /\ attempts = <<>>
    /\ log = NoLog
    /\ depth = 0
    /\ start = -1
    /\ i = 0
    /\ jsonObjects = <<>>
    /\ result = Pending
    /\ validation = NotValidated

\* route.ts:9-27: the request is read and the two guards run; a body that is no
\* JSON makes request.json() throw, the body null makes the destructuring throw.
Post ==
    /\ route.state = "none"
    /\ \E text \in RequestTexts, apiKey \in BOOLEAN :
           \E r \in {JSONParse(text)} :
               route' =
                   IF ~r.ok \/ Nullish(r.val)
                   THEN [route EXCEPT !.state = "responded", !.body = r, !.apiKey = apiKey,
                                      !.response = RouteCaught]
                   ELSE IF ~Truthy(DescriptionOf(r)) \/ DescriptionOf(r).type # "string"
                   THEN [route EXCEPT !.state = "responded", !.body = r, !.apiKey = apiKey,
                                      !.response = RouteError(400, "Description is required")]
                   ELSE IF ~apiKey
                   THEN [route EXCEPT !.state = "responded", !.body = r, !.apiKey = apiKey,
                                      !.response = RouteError(500, "GEMINI_API_KEY is not configured")]
                   ELSE [route EXCEPT !.state = "generating", !.body = r, !.apiKey = apiKey]
    /\ UNCHANGED notRoute

\* route.ts:58-92: model.generateContent settles: it throws, or response.text()
\* does, and the catch answers; or the completion is cleaned, decoded and
\* checked.
ModelSettles ==
    /\ route.state = "generating"
    /\ \/ route' = [route EXCEPT !.state = "responded", !.response = RouteCaught]
       \/ \E text \in CompletionTexts :
              route' = [route EXCEPT !.state = "responded", !.completion = text,
                                    !.response = RouteAnswer(text)]
    /\ UNCHANGED notRoute

RNext ==
    \/ Post
    \/ ModelSettles

RSpec == RInit /\ [][RNext]_vars

-----------------------------------------------------------------------------
(* The schema Home holds *)

\* A step of an import that was accepted: the file decoded and passed
\* validateFormSchema, and Home holds the decoded value.
ImportAccepted ==
    /\ ReaderLoads
    /\ JSONParse(reader.text).ok
    /\ ValidateFormSchema(JSONParse(reader.text).val).isValid
    /\ home'.formSchema = JSONParse(reader.text).val
    /\ home'.error = NoMessage

\* A step of an import that was refused.
ImportRefused == ReaderLoads /\ ~ImportAccepted

\* A step on which a call of generateForm returned a schema to Home.
GenerationSucceeded ==
    /\ GenerateReturns
    /\ \E r \in GenerateFormResults : r.status = "success" /\ home'.formSchema = r.schema

\* C21: the schema Home holds changes only as a whole and only through a
\* generation (cleared when it starts, set to the returned schema when it
\* succeeds), a reset (cleared) or an accepted import (set to the decoded
\* file); an export, a copy of the code, the settling of the clipboard write, a
\* click on an example, a refused import and handleGenerate on a prompt that is
\* empty once trimmed leave it as it was.
C21_SchemaChangesOnlyThroughItsOperations ==
    [][ /\ home'.formSchema # home.formSchema
           => /\ \/ HandleGenerate /\ home'.formSchema = Null
                 \/ GenerationSucceeded
                 \/ HandleReset /\ home'.formSchema = Null
                 \/ ImportAccepted
              /\ ~(HandleExport \/ HandleCopyCode \/ ClipboardSettles \/ HandleExampleClick
                     \/ HandleFileChange \/ ImportRefused)
        /\ \A prompt \in {p \in Prompts : Trim(p) = <<>>} :
               HandleGenerateOn([home EXCEPT !.prompt = prompt]).formSchema = home.formSchema
      ]_vars

\* A schema is held after an import was refused and a clipboard write failed.
C21_Witness ==
    /\ home.formSchema # Null
    /\ reader.text = ProseSchemaText
    /\ ~reader.present
    /\ home.error = Message("Failed to copy to clipboard", NoError)
    /\ download.present

-----------------------------------------------------------------------------
(* What an import decodes *)

\* The schema of SchemaText, as JSON.parse decodes it.
SchemaValue == JSONParse(SchemaText).val

\* The texts that hold the schema inside a code fence or between prose.
WrappedSchemaTexts == {FencedSchemaText, ProseSchemaText}

\* A step on which reader.onload ran.
Loaded == reader.present /\ ~reader'.present

\* C22: an import decodes the text of the file as it is, without the cleaning
\* of generateFormInternal: a file that holds a valid schema inside a code
\* fence or between prose (a text the cleaning would reduce to the schema) is
\* refused with the parse-failure error and changes nothing else, the same
\* schema as bare JSON is accepted, and no file that JSON.parse refuses is
\* ever accepted.
C22_ImportDecodesFileTextDirectly ==
    [][ Loaded =>
          /\ reader.text \in WrappedSchemaTexts
             => /\ JSONParse(ExtractBoundaries(StripFences(Trim(reader.text))))
                      = JSONParse(SchemaText)
                /\ home' = [home EXCEPT !.error = ImportParseFailedMessage]
          /\ reader.text = SchemaText
             => /\ home'.formSchema = SchemaValue
                /\ home'.error = NoMessage
          /\ ~JSONParse(reader.text).ok => home'.error = ImportParseFailedMessage
      ]_vars

\* The fenced schema was refused while another schema was held.
C22_Witness ==
    /\ reader.text = FencedSchemaText
    /\ ~reader.present
    /\ home.error = ImportParseFailedMessage
    /\ home.formSchema \notin {Null, SchemaValue}

-----------------------------------------------------------------------------
(* The fallbacks that repeat the primary attempt *)

\* The attempts of the greedy-regex fallback and of the boundary fallback.
RepeatingAttempts == {k \in 1..Len(attempts) : attempts[k].stage \in {"regex", "boundaries"}}

-----------------------------------------------------------------------------
(* The depth scan and a stray closing brace *)

\* The spans a scan records whose depth does not fall below zero: the scan of
\* s from index k on, at depth d, the open span starting at st, acc the spans
\* recorded so far.
RECURSIVE FlooredScanFrom(_, _, _, _, _)
FlooredScanFrom(s, k, d, st, acc) ==
    IF k >= Len(s) THEN acc
    ELSE IF s[k + 1] = "{"
    THEN FlooredScanFrom(s, k + 1, d + 1, IF d = 0 THEN k ELSE st, acc)
    ELSE IF s[k + 1] = "}" /\ d = 1
    THEN FlooredScanFrom(s, k + 1, 0, -1, Append(acc, Substring(s, st, k + 1)))
    ELSE IF s[k + 1] = "}" /\ d > 1
    THEN FlooredScanFrom(s, k + 1, d - 1, st, acc)
    ELSE FlooredScanFrom(s, k + 1, d, st, acc)

\* The depth scan has read the whole text.
ScanOver == pc = "scan" /\ i >= Len(jsonString)

\* C24: the depth the scan tracks is never negative, and the scan records every
\* top-level brace-balanced span of the text, those after an unmatched } too.
C24_StrayBraceSkipsNothing ==
    /\ pc = "scan" => depth >= 0
    /\ (ScanOver /\ IndexOf(jsonString, "}") # -1)
           => jsonObjects = FlooredScanFrom(jsonString, 0, 0, -1, <<>>)

-----------------------------------------------------------------------------
(* The race of generateForm *)

\* C25: a call of generateForm returns exactly one outcome: what
\* generateFormInternal returned when it settled before the timer fired, the
\* timeout failure when the timer fired first; once returned, the outcome
\* never changes, whichever of the two happens later.
C25_ExactlyOneOutcome ==
    [][ /\ call.state = "returned"
           => call'.state = "returned" /\ call'.returned = call.returned
        /\ (call'.state = "returned") = (call'.returned # Pending)
        /\ (call'.state = "returned" /\ call'.events # <<>>)
           => call'.returned = IF call'.events[1] = "timer"
                               THEN Failure(TimeoutMessage)
                               ELSE result'
      ]_vars

\* The timer won, and generateFormInternal, which was not cancelled, later
\* returned a schema that the call does not return.
C25_Witness ==
    /\ call.events = <<"timer", "settled">>
    /\ call.returned = Failure(TimeoutMessage)
    /\ result.status = "success"

\* generateFormInternal won, and the timer fired afterwards.
GenerationWonThenTimerFired ==
    /\ call.events = <<"settled", "timer">>
    /\ call.returned = result
    /\ result.status = "success"

-----------------------------------------------------------------------------
(* The preconditions of generateForm *)

\* C28: generateForm checks its preconditions before any upstream call, the
\* key first: without a key the call returns the failure "GEMINI_API_KEY is not
\* configured" whatever the prompt; with a key and a prompt that is empty once
\* trimmed it returns "Prompt is required"; in both cases no request was
\* issued, no timer armed and generateFormInternal not entered.
C28_PreconditionsBeforeUpstream ==
    /\ (call.state # "none" /\ ~call.apiKey)
           => call.returned = Failure(KeyMissingMessage)
    /\ (call.state # "none" /\ call.apiKey /\ Trim(call.prompt) = <<>>)
           => call.returned = Failure(PromptRequiredMessage)
    /\ (call.state # "none" /\ (~call.apiKey \/ Trim(call.prompt) = <<>>))
           => /\ call.state = "returned"
              /\ call.requests = 0
              /\ call.timer = "off"
              /\ call.events = <<>>
              /\ pc = "idle"
    /\ (call.requests > 0 \/ call.timer # "off")
           => call.apiKey /\ Trim(call.prompt) # <<>>

\* A call without a key and with a blank prompt returned the key failure.
C28_Witness ==
    /\ call.state = "returned"
    /\ ~call.apiKey
    /\ call.prompt = <<" ", " ">>
    /\ call.returned = Failure(KeyMissingMessage)
    /\ call.requests = 0

-----------------------------------------------------------------------------
(* What Home holds when a generation has settled *)

\* A step on which a call of generateForm started by handleGenerate returned.
GenerationSettled == home'.generations < home.generations

\* C26: when a generation started by handleGenerate has settled, exactly one
\* of formSchema and error is set in Home, whatever a file read, a clipboard
\* write or a click on an example did in between.
C26_SettledGenerationSetsExactlyOne ==
    [][ GenerationSettled
           => (home'.formSchema # Null) # (home'.error # NoMessage) ]_vars

\* With no file being read and no clipboard write pending while the generation
\* runs, exactly one of the two is set when it settles.
SettledAloneSetsExactlyOne ==
    [][ (GenerationSettled /\ ~reader.present /\ home.copies = 0
            /\ home.error = NoMessage /\ home.formSchema = Null)
           => (home'.formSchema # Null) # (home'.error # NoMessage) ]_vars

-----------------------------------------------------------------------------
(* The generations in flight *)

\* A step on which generateForm is called.
GenerationStarted == home'.generations > home.generations

\* C27: at most one generation is in flight: while one is pending neither the
\* button nor the Enter key starts another call of generateForm, and
\* handleGenerate on a prompt that is empty once trimmed starts none.
C27_AtMostOneGenerationInFlight ==
    [][ /\ home'.generations <= 1
        /\ home'.isPending = (home'.generations = 1)
        /\ GenerationStarted
           => /\ ~home.isPending
              /\ home.generations = 0
              /\ Trim(home.prompt) # <<>>
        /\ \A prompt \in {p \in Prompts : Trim(p) = <<>>} :
               HandleGenerateOn([home EXCEPT !.prompt = prompt]).generations
                   = home.generations
      ]_vars

\* A second generation is pending, after an earlier one returned a schema that
\* was exported.
C27_Witness ==
    /\ home.isPending
    /\ home.generations = 1
    /\ download.present
    /\ home.formSchema = Null

-----------------------------------------------------------------------------
(* The toast and its timers *)

\* C30: a toast stays visible until the timer started for it fires, three
\* seconds after it was shown: while the timer of the toast shown last is
\* pending (every timer runs for the same three seconds, so it fires last), the
\* toast is on screen; a timer started for an earlier toast never clears it.
C30_ToastOutlivesEarlierTimers ==
    home.timers > 0 => home.toastMessage # "null"

\* The only timer pending is the one of the toast on screen: that toast stays
\* until its own timer fires.
LoneToastStaysUntilItsTimer ==
    [][ (home.timers = 1 /\ home'.timers = 1) => home'.toastMessage = home.toastMessage ]_vars

-----------------------------------------------------------------------------
(* The answers of the route *)

\* The request carries a description that is a string and not empty.
HasDescription(r) == DescriptionOf(r).type = "string" /\ NonEmpty(DescriptionOf(r))

\* C29: the route answers every request; it answers {schema} only when the
\* decoded completion is well formed; a request whose description is missing
\* or no string is answered with status 400, whether or not the key is set;
\* every other failure is answered with status 500.
C29_RouteAnswers ==
    /\ route.state \in {"none", "generating", "responded"}
    /\ route.state = "responded"
           => /\ route.response.status \in {200, 400, 500}
              /\ route.response.status = 200
                    => /\ WellFormed(route.response.schema)
                       /\ route.response.schema = JSONParse(RouteClean(route.completion)).val
              /\ DescriptionOf(route.body).type # "string"
                    => route.response.status = 400
              /\ route.response.status = 400 => ~HasDescription(route.body)

\* What holds of the answers: {schema} only for a well-formed decoded
\* completion, status 400 exactly for a body that decodes to a value other
\* than null and carries no non-empty string description, status 500 for
\* every other failure, among them a body that is no JSON or is null.
RouteAnswersAsChecked ==
    route.state = "responded"
        => /\ route.response.status \in {200, 400, 500}
           /\ route.response.status = 200
                 => /\ WellFormed(route.response.schema)
                    /\ route.response.schema = JSONParse(RouteClean(route.completion)).val
                    /\ HasDescription(route.body) /\ route.apiKey
           /\ route.response.status = 400
                 <=> (route.body.ok /\ ~Nullish(route.body.val) /\ ~HasDescription(route.body))
           /\ (~route.body.ok \/ Nullish(route.body.val)) => route.response = RouteCaught

=============================================================================
